---- MODULE Spec2Model ----
(***************************************************************************)
(* Model of the quadrant classification service of brzytwa:                *)
(* backend-ai/main.cpp (TaskClassifier and ClassificationController).      *)
(*                                                                         *)
(* Numbers.  C++ float values are modelled in fixed point: a similarity is *)
(* an integer number of 1/Scale units, a vote weight (similarity * 0.6f)   *)
(* an integer number of 1/(Scale * WeightDen) units.  A float that is NaN  *)
(* is the record NaN.  Embedding components are small integers.            *)
(* Texts are sequences of one-character strings.                           *)
(***************************************************************************)
EXTENDS Integers, Sequences, FiniteSets, TLC

VARIABLES
    onnx_model_ok,         \* environment: bert_model.onnx loads
    training_file,         \* environment: training_data.json
    map_order,             \* environment: iteration order of std::unordered_map
    global_classifier,     \* static TaskClassifier* of the controller: FALSE = nullptr
    session_,              \* TaskClassifier::session_ is non-null
    training_texts_,       \* TaskClassifier::training_texts_
    training_labels_,      \* TaskClassifier::training_labels_
    training_embeddings_,  \* TaskClassifier::training_embeddings_ (lazy cache)
    request,               \* the request waiting for the handler
    last,                  \* the request just handled and what was observed of it
    prev,                  \* digest of the classification delivered before (SpecRepeat)
    pure_in,               \* inputs of the function under test (SpecPure)
    pure_out,              \* its result (SpecPure)
    fast_healthy,          \* Routing Layer: "is the fast engine healthy"
    route,                 \* Routing Layer: the state machine of each request
    examples,              \* Training Corpus Store: the backing sequence
    write_lock,            \* Training Corpus Store: holder of the write lock, 0 = free
    writer,                \* Training Corpus Store: each caller of addExample
    tasks,                 \* web Matrix: the tasks prop
    newTask,               \* web Matrix: the newTask state (the form)
    shown,                 \* web Matrix: what the last render put in each quadrant
    aiLoading,             \* web Matrix: the aiLoading state
    ai_call,               \* web Matrix: the predictQuadrant call that is awaiting its answer
    ui_event,              \* web Matrix: the handler that ran last and what it was given
    fast_up,               \* environment: the fast engine answers the calls it gets
    mutex_,                \* TaskClassifier::mutex_: the thread that holds it, 0 = free
    thread,                \* each server thread running classify_task on the local path
    calls,                 \* web App: the asynchronous handlers awaiting their fetch
    next_id,               \* task server: the _id given to the next created task
    delete_requested,      \* web App: the ids deleteTask was called with
    mounted                \* web App: the component that is rendered, App or AppContent

routerVars == <<fast_healthy, route>>

storeVars == <<examples, write_lock, writer>>

uiVars == <<tasks, newTask, shown, aiLoading, ai_call, ui_event>>

engineVars == <<fast_up>>

threadVars == <<mutex_, thread>>

appVars == <<calls, next_id, delete_requested, mounted>>

vars == <<onnx_model_ok, training_file, map_order, global_classifier, session_,
          training_texts_, training_labels_, training_embeddings_, request, last,
          prev, pure_in, pure_out, routerVars, storeVars, uiVars, engineVars,
          threadVars, appVars>>

classifierVars == <<global_classifier, session_, training_texts_,
                    training_labels_, training_embeddings_>>

envVars == <<onnx_model_ok, training_file, map_order>>

serverVars == <<envVars, classifierVars, request, last, prev>>

pureVars == <<pure_in, pure_out>>

-----------------------------------------------------------------------------
(* Bounds of the model *)

MaxFile == 2        \* entries in training_data.json
MaxDocs == 2        \* documents in one ChromaDB answer
MaxCorpus == 7      \* cached embeddings scanned by one local retrieval (SpecPure)
MaxDim == 2         \* dimension of the vectors given to cosine_similarity (SpecPure)
MaxScan == 6        \* cached embeddings scanned under two thresholds (SpecThreshold)
MaxRequests == 2    \* requests the Routing Layer handles at the same time
MaxWriters == 2     \* callers of addExample at the same time
MaxTasks == 2       \* tasks on the board of the web Matrix
MaxThreads == 2     \* server threads inside classify_task at the same time
MaxCached == 4      \* cached embeddings past which no further request is followed
MaxCalls == 2       \* handlers of the web App awaiting a fetch at the same time
MaxDeletes == 1     \* tasks of the web App that deleteTask is called for

(* Program constants *)

max_similar == 5    \* Config::max_similar
Scale == 100        \* resolution of a modelled float: 1.0f is Scale
WeightNum == 6      \* 0.6f = WeightNum / WeightDen
WeightDen == 10
Threshold == 30     \* 0.3f in 1/Scale units
BaseWeight == Scale * WeightDen   \* 1.0f in vote-weight units

-----------------------------------------------------------------------------
(* Floats *)

NaN == [nan |-> TRUE, v |-> 0]
Float(x) == [nan |-> FALSE, v |-> x]

\* a > b on floats: every comparison with NaN is false
FloatGT(a, b) == ~a.nan /\ ~b.nan /\ a.v > b.v

RECURSIVE SumSeq(_)
SumSeq(s) == IF s = <<>> THEN 0 ELSE Head(s) + SumSeq(Tail(s))

Abs(x) == IF x < 0 THEN -x ELSE x

\* the largest s in lo..hi with s * s * nn <= Scale * Scale * dot * dot, by bisection
RECURSIVE LargestRoot(_, _, _, _)
LargestRoot(lo, hi, dot, nn) ==
    IF lo = hi THEN lo
    ELSE LET mid == (lo + hi + 1) \div 2
         IN  IF mid * mid * nn <= Scale * Scale * dot * dot
             THEN LargestRoot(mid, hi, dot, nn)
             ELSE LargestRoot(lo, mid - 1, dot, nn)

\* floor(Scale * dot / sqrt(nn)) for dot >= 0, nn > 0 and dot * dot <= nn
Quotient(dot, nn) == LargestRoot(0, Scale, dot, nn)

\* TaskClassifier::cosine_similarity
cosine_similarity(a, b) ==
    IF Len(a) # Len(b) THEN Float(0)
    ELSE LET dot == SumSeq([i \in 1..Len(a) |-> a[i] * b[i]])
             norm_a == SumSeq([i \in 1..Len(a) |-> a[i] * a[i]])
             norm_b == SumSeq([i \in 1..Len(b) |-> b[i] * b[i]])
         IN  IF norm_a * norm_b = 0
             THEN NaN    \* 0.0f / 0.0f: a zero norm makes the dot product zero too
             ELSE Float((IF dot < 0 THEN -1 ELSE 1) * Quotient(Abs(dot), norm_a * norm_b))

-----------------------------------------------------------------------------
(* Texts and embeddings *)

T0 == <<>>                                      \* ""
T1 == <<"a">>                                   \* one token
T2 == <<"a", " ", "b">>                         \* two tokens
T3 == <<"a", " ", "b", " ", "a">>               \* three tokens
T4 == <<"b", " ", "a", " ", "b", " ", "a">>     \* four tokens

IsSpace(c) == c = " " \/ c = "\n" \/ c = "\t"

\* the loop of TaskClassifier::tokenize: tokens so far, current word, rest of the text
RECURSIVE tokenize_loop(_, _, _)
tokenize_loop(tokens, word, text) ==
    IF text = <<>>
    THEN IF word # <<>> THEN Append(tokens, word) ELSE tokens
    ELSE IF IsSpace(Head(text))
         THEN IF word # <<>>
              THEN tokenize_loop(Append(tokens, word), <<>>, Tail(text))
              ELSE tokenize_loop(tokens, word, Tail(text))
         ELSE tokenize_loop(tokens, Append(word, Head(text)), Tail(text))

\* TaskClassifier::tokenize
tokenize(text) == tokenize_loop(<<>>, <<>>, text)

\* session_->Run on input_ids that are all zero: the output depends on the
\* number of tokens only.  The table stands for bert_model.onnx.
SessionRun(ntokens) ==
    CASE ntokens = 0 -> <<0, 0, 0, 0>>
      [] ntokens = 1 -> <<10, 0, 0, 0>>
      [] ntokens = 2 -> <<3, 9, 3, 1>>
      [] ntokens = 3 -> <<6, 8, 0, 0>>
      [] OTHER       -> <<8, 6, 0, 0>>

\* TaskClassifier::generate_embedding; run_ok = FALSE: the inference throws
generate_embedding(session, text, run_ok) ==
    IF ~session THEN <<>>
    ELSE IF run_ok THEN SessionRun(Len(tokenize(text))) ELSE <<>>

-----------------------------------------------------------------------------
(* Training data *)

NumberItem(t, q) == [text |-> t, quadrant |-> q, qtype |-> "number"]
StringItem(t) == [text |-> t, quadrant |-> 0, qtype |-> "string"]

\* the for loop of load_training_data: a quadrant that is not a number makes
\* the conversion throw after the text was pushed; the catch ends the load
RECURSIVE load_items(_, _, _)
load_items(items, texts, labels) ==
    IF items = <<>> THEN [texts |-> texts, labels |-> labels]
    ELSE LET item == Head(items)
             texts2 == Append(texts, item.text)
         IN  IF item.qtype # "number"
             THEN [texts |-> texts2, labels |-> labels]
             ELSE load_items(Tail(items), texts2, Append(labels, item.quadrant))

\* TaskClassifier::load_training_data on a freshly constructed classifier
load_training_data(file) ==
    IF ~file.exists THEN [texts |-> <<>>, labels |-> <<>>]
    ELSE load_items(file.items, <<>>, <<>>)

-----------------------------------------------------------------------------
(* Retrieval *)

Neighbour(t, s) == [text |-> t, similarity |-> s]

\* std::sort with comparator a.second > b.second, as an insertion sort that
\* keeps the order of equal similarities
RECURSIVE insert_desc(_, _)
insert_desc(s, e) ==
    IF s = <<>> THEN <<e>>
    ELSE IF e.similarity > Head(s).similarity
         THEN <<e>> \o s
         ELSE <<Head(s)>> \o insert_desc(Tail(s), e)

RECURSIVE sort_desc(_)
sort_desc(s) ==
    IF s = <<>> THEN <<>>
    ELSE insert_desc(sort_desc(SubSeq(s, 1, Len(s) - 1)), s[Len(s)])

Min(a, b) == IF a < b THEN a ELSE b

\* scan_embeddings with >= in place of > (an entry at exactly 0.3 is kept)
RECURSIVE scan_embeddings_ge(_, _, _, _)
scan_embeddings_ge(query_embedding, embeddings, texts, i) ==
    IF i > Len(embeddings) \/ i > Len(texts) THEN <<>>
    ELSE LET similarity == cosine_similarity(query_embedding, embeddings[i])
             rest == scan_embeddings_ge(query_embedding, embeddings, texts, i + 1)
         IN  IF ~similarity.nan /\ similarity.v >= Threshold
             THEN <<Neighbour(texts[i], similarity.v)>> \o rest
             ELSE rest

\* lines 218-225: the scan of the cached embeddings
RECURSIVE scan_embeddings(_, _, _, _)
scan_embeddings(query_embedding, embeddings, texts, i) ==
    IF i > Len(embeddings) \/ i > Len(texts) THEN <<>>
    ELSE LET similarity == cosine_similarity(query_embedding, embeddings[i])
             rest == scan_embeddings(query_embedding, embeddings, texts, i + 1)
         IN  IF FloatGT(similarity, Float(Threshold))
             THEN <<Neighbour(texts[i], similarity.v)>> \o rest
             ELSE rest

\* scan_embeddings_min with the comparison turned round
RECURSIVE scan_embeddings_min_lt(_, _, _, _, _)
scan_embeddings_min_lt(query_embedding, embeddings, texts, i, min_similarity) ==
    IF i > Len(embeddings) \/ i > Len(texts) THEN <<>>
    ELSE LET similarity == cosine_similarity(query_embedding, embeddings[i])
             rest == scan_embeddings_min_lt(query_embedding, embeddings, texts, i + 1,
                                            min_similarity)
         IN  IF FloatGT(Float(min_similarity), similarity)
             THEN <<Neighbour(texts[i], similarity.v)>> \o rest
             ELSE rest

\* lines 218-225 with the literal 0.3f as the parameter min_similarity
RECURSIVE scan_embeddings_min(_, _, _, _, _)
scan_embeddings_min(query_embedding, embeddings, texts, i, min_similarity) ==
    IF i > Len(embeddings) \/ i > Len(texts) THEN <<>>
    ELSE LET similarity == cosine_similarity(query_embedding, embeddings[i])
             rest == scan_embeddings_min(query_embedding, embeddings, texts, i + 1,
                                         min_similarity)
         IN  IF FloatGT(similarity, Float(min_similarity))
             THEN <<Neighbour(texts[i], similarity.v)>> \o rest
             ELSE rest

\* lines 217-234 with the literal 0.3f as the parameter min_similarity
scan_sort_truncate_min(query_embedding, embeddings, texts, min_similarity) ==
    LET similar == sort_desc(scan_embeddings_min(query_embedding, embeddings, texts, 1,
                                                 min_similarity))
    IN  IF Len(similar) > max_similar THEN SubSeq(similar, 1, max_similar) ELSE similar

\* lines 217-234 of find_similar_examples_local: scan, sort, truncate
scan_sort_truncate(query_embedding, embeddings, texts) ==
    LET similar == sort_desc(scan_embeddings(query_embedding, embeddings, texts, 1))
    IN  IF Len(similar) > max_similar THEN SubSeq(similar, 1, max_similar) ELSE similar

\* TaskClassifier::find_similar_examples_local.  fill_ok[i] and query_ok say
\* which inferences succeed.  The function has no way to report a failure:
\* error is FALSE on every path.
find_similar_examples_local(query, session, texts, embeddings, fill_ok, query_ok) ==
    LET cache == IF embeddings = <<>>
                 THEN [i \in 1..Len(texts) |-> generate_embedding(session, texts[i], fill_ok[i])]
                 ELSE embeddings
        query_embedding == generate_embedding(session, query, query_ok)
    IN  [similar |-> IF query_embedding = <<>> THEN <<>>
                     ELSE scan_sort_truncate(query_embedding, cache, texts),
         embeddings |-> cache,
         query_failed |-> query_embedding = <<>>,
         error |-> FALSE,
         path |-> "local"]

Doc(t, d) == [text |-> t, distance |-> d]

\* lines 182-190: similarity = 1 / (1 + distance), kept when > 0.3
RECURSIVE parse_documents(_)
parse_documents(docs) ==
    IF docs = <<>> THEN <<>>
    ELSE LET similarity == (Scale * Scale) \div (Scale + Head(docs).distance)
             rest == parse_documents(Tail(docs))
         IN  IF similarity > Threshold
             THEN <<Neighbour(Head(docs).text, similarity)>> \o rest
             ELSE rest

\* find_similar_examples_chroma giving up on a failed query instead of
\* falling back to the local search
find_similar_examples_chroma_nofallback(query, response, session, texts, embeddings, fill_ok, query_ok) ==
    IF response.status_code = 200 /\ response.body_ok
    THEN [similar |-> sort_desc(parse_documents(response.documents)),
          embeddings |-> embeddings, query_failed |-> FALSE, error |-> FALSE,
          path |-> "chroma"]
    ELSE [similar |-> <<>>, embeddings |-> embeddings, query_failed |-> FALSE,
          error |-> FALSE, path |-> "chroma"]

\* TaskClassifier::find_similar_examples_chroma.  response is the answer of
\* cpr::post: status_code (0 on a network error), body_ok = FALSE when
\* json::parse or a conversion of the body throws, documents with distances.
find_similar_examples_chroma(query, response, session, texts, embeddings, fill_ok, query_ok) ==
    IF response.status_code # 200
    THEN find_similar_examples_local(query, session, texts, embeddings, fill_ok, query_ok)
    ELSE IF ~response.body_ok
         THEN \* catch (const std::exception&)
              find_similar_examples_local(query, session, texts, embeddings, fill_ok, query_ok)
         ELSE [similar |-> sort_desc(parse_documents(response.documents)),
               embeddings |-> embeddings,
               query_failed |-> FALSE,
               error |-> FALSE,
               path |-> "chroma"]

-----------------------------------------------------------------------------
(* Classification *)

\* std::find(training_texts_.begin(), training_texts_.end(), text): the first
\* index holding text, 0 for end()
IndexOf(texts, text) ==
    IF \E i \in 1..Len(texts) : texts[i] = text
    THEN CHOOSE i \in 1..Len(texts) :
             texts[i] = text /\ \A j \in 1..(i - 1) : texts[j] # text
    ELSE 0

\* quadrant_scores[quadrant] += w on the map kept as a sequence of entries in
\* insertion order; operator[] inserts a missing key with 0.0f
AddScore(scores, quadrant, w) ==
    IF \E i \in 1..Len(scores) : scores[i].quadrant = quadrant
    THEN [i \in 1..Len(scores) |->
            IF scores[i].quadrant = quadrant
            THEN [scores[i] EXCEPT !.score = @ + w] ELSE scores[i]]
    ELSE Append(scores, [quadrant |-> quadrant, score |-> w])

\* add_votes forgetting total_weight += similarity * 0.6f
RECURSIVE add_votes_no_total(_, _, _, _, _)
add_votes_no_total(similar, tally, texts, labels, garbage) ==
    IF similar = <<>> THEN tally
    ELSE LET idx == IndexOf(texts, Head(similar).text)
             quadrant == IF idx <= Len(labels) THEN labels[idx] ELSE garbage
             w == Head(similar).similarity * WeightNum
         IN  IF idx # 0
             THEN add_votes_no_total(Tail(similar),
                                     [scores |-> AddScore(tally.scores, quadrant, w),
                                      total_weight |-> tally.total_weight],
                                     texts, labels, garbage)
             ELSE add_votes_no_total(Tail(similar), tally, texts, labels, garbage)

\* add_votes without the test it != training_texts_.end()
RECURSIVE add_votes_unchecked(_, _, _, _, _)
add_votes_unchecked(similar, tally, texts, labels, garbage) ==
    IF similar = <<>> THEN tally
    ELSE LET idx == IndexOf(texts, Head(similar).text)
             quadrant == IF idx # 0 /\ idx <= Len(labels) THEN labels[idx] ELSE garbage
             w == Head(similar).similarity * WeightNum
         IN  add_votes_unchecked(Tail(similar),
                                 [scores |-> AddScore(tally.scores, quadrant, w),
                                  total_weight |-> tally.total_weight + w],
                                 texts, labels, garbage)

\* lines 265-274: the votes of the neighbours.  garbage is what the read of
\* training_labels_[idx] yields when idx is past the end of the labels.
RECURSIVE add_votes(_, _, _, _, _)
add_votes(similar, tally, texts, labels, garbage) ==
    IF similar = <<>> THEN tally
    ELSE LET idx == IndexOf(texts, Head(similar).text)
             quadrant == IF idx <= Len(labels) THEN labels[idx] ELSE garbage
             w == Head(similar).similarity * WeightNum
         IN  IF idx # 0
             THEN add_votes(Tail(similar),
                            [scores |-> AddScore(tally.scores, quadrant, w),
                             total_weight |-> tally.total_weight + w],
                            texts, labels, garbage)
             ELSE add_votes(Tail(similar), tally, texts, labels, garbage)

Reverse(s) == [i \in 1..Len(s) |-> s[Len(s) + 1 - i]]

\* the order in which a range-for visits the unordered_map
IterationOrder(scores, order) ==
    IF order = "insertion" THEN scores ELSE Reverse(scores)

\* lines 277-286: normalized_score = score / total_weight is compared as the
\* numerator score, total_weight being the same positive number for all
RECURSIVE find_best(_, _)
find_best(entries, best) ==
    IF entries = <<>> THEN best
    ELSE IF Head(entries).score > best.score
         THEN find_best(Tail(entries), Head(entries))
         ELSE find_best(Tail(entries), best)

\* lines 256-288 of TaskClassifier::classify_task: the vote over the neighbours.
\* best_score is best.score / total_weight.
weighted_vote(similar, texts, labels, garbage, order) ==
    LET tally == add_votes(similar,
                           [scores |-> <<[quadrant |-> 0, score |-> BaseWeight]>>,
                            total_weight |-> BaseWeight],
                           texts, labels, garbage)
        best == find_best(IterationOrder(tally.scores, order),
                          [quadrant |-> 0, score |-> 0])
    IN  [quadrant |-> best.quadrant,
         best_score |-> best.score,
         total_weight |-> tally.total_weight,
         scores |-> tally.scores]

\* TaskClassifier::classify_task
classify_task(task, response, session, texts, labels, embeddings, fill_ok, query_ok, garbage, order) ==
    LET found == find_similar_examples_chroma(task, response, session, texts,
                                              embeddings, fill_ok, query_ok)
        vote == weighted_vote(found.similar, texts, labels, garbage, order)
    IN  [quadrant |-> vote.quadrant,
         best_score |-> vote.best_score,
         total_weight |-> vote.total_weight,
         similar |-> found.similar,
         embeddings |-> found.embeddings,
         query_failed |-> found.query_failed,
         error |-> found.error,
         path |-> found.path]

\* TaskClassifier::get_quadrant_name
get_quadrant_name(quadrant) ==
    CASE quadrant = 0 -> "Zrob Teraz (Pilne + Wazne)"
      [] quadrant = 1 -> "Zaplanuj (Pilne, nie wazne)"
      [] quadrant = 2 -> "Deleguj (Wazne, nie pilne)"
      [] quadrant = 3 -> "Usun (Nie wazne, nie pilne)"
      [] OTHER        -> "Nieznany"

-----------------------------------------------------------------------------
(* The inputs the model draws from *)

RECURSIVE SeqsUpTo(_, _)
SeqsUpTo(S, n) ==
    IF n = 0 THEN {<<>>}
    ELSE LET shorter == SeqsUpTo(S, n - 1)
         IN  shorter \cup {Append(s, x) : s \in {t \in shorter : Len(t) = n - 1}, x \in S}

Items == {NumberItem(T3, 0), NumberItem(T3, 7), NumberItem(T1, 1), StringItem(T3)}
NoFile == [exists |-> FALSE, items |-> <<>>]
FilesUpTo(n) == {NoFile} \cup {[exists |-> TRUE, items |-> f] : f \in SeqsUpTo(Items, n)}
TrainingFiles == FilesUpTo(MaxFile)

NoJson == [json |-> FALSE, has_task |-> FALSE, task |-> T0]
NoTask == [json |-> TRUE, has_task |-> FALSE, task |-> T0]
TaskBody(t) == [json |-> TRUE, has_task |-> TRUE, task |-> t]
TaskTexts == {T0, T1, T3}
Bodies == {NoJson, NoTask} \cup {TaskBody(t) : t \in TaskTexts}

Docs == {Doc(T3, 0), Doc(T4, 100), Doc(T1, 400)}
Unavailable == [status_code |-> 503, body_ok |-> FALSE, documents |-> <<>>]
NetworkError == [status_code |-> 0, body_ok |-> FALSE, documents |-> <<>>]
BadBody == [status_code |-> 200, body_ok |-> FALSE, documents |-> <<>>]
ChromaResponses ==
    {Unavailable, NetworkError, BadBody}
        \cup {[status_code |-> 200, body_ok |-> TRUE, documents |-> d] : d \in SeqsUpTo(Docs, MaxDocs)}

GarbageInts == {2, 7}
MapOrders == {"insertion", "reverse"}

-----------------------------------------------------------------------------
(* The HTTP controller *)

NoRequest == [pending |-> FALSE, body |-> NoJson]

NoResponse ==
    [handled |-> FALSE, body |-> NoJson, response |-> Unavailable, status |-> 0,
     quadrant |-> 0, quadrant_name |-> "", urgent |-> FALSE, important |-> FALSE,
     best_score |-> 0, total_weight |-> 0, similar |-> <<>>,
     query_failed |-> FALSE, error |-> FALSE, path |-> "none"]

NoPrev == [set |-> FALSE, task |-> T0, quadrant |-> 0, best_score |-> 0, total_weight |-> 0]

\* InvalidBody without the test of the task string
InvalidBody_no_empty_test(body) == ~body.json \/ ~body.has_task

\* line 327: no JSON body, no "task" member, or a task that is the empty string
InvalidBody(body) == ~body.json \/ ~body.has_task \/ body.task = <<>>

\* lines 326-334: the 400 answer; nothing else is touched
BadRequest(body) ==
    /\ last' = [NoResponse EXCEPT !.handled = TRUE, !.body = body, !.status = 400]
    /\ UNCHANGED classifierVars

\* the classifier the controller works with: the static instance, created by
\* the TaskClassifier constructor (lines 54-63) when the pointer is null
Classifier ==
    IF global_classifier
    THEN [session |-> session_, texts |-> training_texts_,
          labels |-> training_labels_, embeddings |-> training_embeddings_]
    ELSE LET loaded == load_training_data(training_file)
         IN  [session |-> onnx_model_ok, texts |-> loaded.texts,
              labels |-> loaded.labels, embeddings |-> <<>>]

\* line 348: bool urgent = quadrant == 0 || quadrant == 1;
response_urgent(quadrant) == quadrant = 0 \/ quadrant = 1

\* line 349: bool important = quadrant == 0 || quadrant == 2;
response_important(quadrant) == quadrant = 0 \/ quadrant = 2

\* lines 336-361: create the classifier on first use, classify, answer
Classify(body, response, fill_ok, query_ok, garbage) ==
    LET c == Classifier
        r == classify_task(body.task, response, c.session, c.texts, c.labels,
                           c.embeddings, fill_ok, query_ok, garbage, map_order)
    IN  /\ global_classifier' = TRUE
        /\ session_' = c.session
        /\ training_texts_' = c.texts
        /\ training_labels_' = c.labels
        /\ training_embeddings_' = r.embeddings
        /\ last' = [handled |-> TRUE, body |-> body, response |-> response,
                    status |-> 200,
                    quadrant |-> r.quadrant,
                    quadrant_name |-> get_quadrant_name(r.quadrant),
                    urgent |-> response_urgent(r.quadrant),
                    important |-> response_important(r.quadrant),
                    best_score |-> r.best_score,
                    total_weight |-> r.total_weight,
                    similar |-> r.similar,
                    query_failed |-> r.query_failed,
                    error |-> r.error,
                    path |-> r.path]

\* ClassificationController::asyncHandleHttpRequest
asyncHandleHttpRequest(body, response, fill_ok, query_ok, garbage) ==
    IF InvalidBody(body)
    THEN BadRequest(body)
    ELSE Classify(body, response, fill_ok, query_ok, garbage)

AllOk(n) == [i \in 1..n |-> TRUE]

\* a request arrives at POST /classify
Receive ==
    /\ ~request.pending
    /\ ~last.handled
    /\ \E body \in Bodies : request' = [pending |-> TRUE, body |-> body]
    /\ UNCHANGED <<envVars, classifierVars, last, prev, pure_in, pure_out, routerVars, storeVars, uiVars, engineVars, threadVars, appVars>>

\* the handler runs.  The environment decides the answer of ChromaDB, which
\* inferences throw, and what an out-of-bounds read of the labels yields;
\* an input the run cannot observe is not varied.
Handle ==
    /\ request.pending
    /\ \E response \in ChromaResponses :
         LET c == Classifier
             local == response.status_code # 200 \/ ~response.body_ok
             infers == local /\ c.session
         IN  \E query_ok \in (IF infers THEN BOOLEAN ELSE {TRUE}) :
             \E fill_ok \in (IF infers /\ c.embeddings = <<>>
                             THEN [1..Len(c.texts) -> BOOLEAN]
                             ELSE {AllOk(Len(c.texts))}) :
             \E garbage \in (IF Len(c.labels) < Len(c.texts) THEN GarbageInts ELSE {0}) :
                 asyncHandleHttpRequest(request.body, response, fill_ok, query_ok, garbage)
    /\ request' = NoRequest
    /\ UNCHANGED <<envVars, prev, pure_in, pure_out, routerVars, storeVars, uiVars, engineVars, threadVars, appVars>>

\* callback(resp): the response has left the server
Deliver ==
    /\ last.handled
    /\ last' = NoResponse
    /\ UNCHANGED <<envVars, classifierVars, request, prev, pure_in, pure_out, routerVars, storeVars, uiVars, engineVars, threadVars, appVars>>

\* callback(resp), the caller remembering what it was told for its task
DeliverKeep ==
    /\ last.handled
    /\ prev' = IF last.status = 200
               THEN [set |-> TRUE, task |-> last.body.task, quadrant |-> last.quadrant,
                     best_score |-> last.best_score, total_weight |-> last.total_weight]
               ELSE prev
    /\ last' = NoResponse
    /\ UNCHANGED <<envVars, classifierVars, request, pure_in, pure_out, routerVars, storeVars, uiVars, engineVars, threadVars, appVars>>

-----------------------------------------------------------------------------
(* The Routing Layer, the Training Corpus Store and the web Matrix at rest *)

NoRoute ==
    [state |-> "Idle", text |-> [len |-> 0, newline |-> FALSE], engine |-> "none",
     fast_calls |-> 0, degraded |-> 0, flag_seen |-> TRUE]

RouteIds == 1..MaxRequests

IdleRouter ==
    /\ fast_healthy = TRUE
    /\ route = [r \in RouteIds |-> NoRoute]

NoWriter ==
    [pc |-> "idle", text |-> T0, quadrant |-> 0, seen |-> <<>>, len_at_call |-> 0,
     result |-> "none"]

WriterIds == 1..MaxWriters

IdleStore ==
    /\ examples = <<>>
    /\ write_lock = 0
    /\ writer = [w \in WriterIds |-> NoWriter]

\* useState({ title: '', description: '', urgent: false, important: false });
\* the description is read by nothing that is modelled
EmptyForm == [title |-> <<>>, urgent |-> FALSE, important |-> FALSE]

NoCall == [pending |-> FALSE, title |-> <<>>, newTask |-> EmptyForm]
NoEvent == [handler |-> "none", quadrant |-> -1, id |-> 0]

QuadrantKeys == <<"do", "decide", "delegate", "delete">>
KeySet == {QuadrantKeys[i] : i \in 1..4}

\* the label of the entry of quadrants with this key
QuadrantLabel(key) ==
    CASE key = "do"       -> "Do Now"
      [] key = "decide"   -> "Schedule"
      [] key = "delegate" -> "Delegate"
      [] key = "delete"   -> "Delete"

\* filter of the key 'delete' taking a task that lacks either flag
QuadrantFilter_either(key, t) ==
    CASE key = "do"       -> t.urgent /\ t.important
      [] key = "decide"   -> t.urgent /\ ~t.important
      [] key = "delegate" -> ~t.urgent /\ t.important
      [] key = "delete"   -> ~t.urgent \/ ~t.important

\* the filter of the entry of quadrants with this key
QuadrantFilter(key, t) ==
    CASE key = "do"       -> t.urgent /\ t.important
      [] key = "decide"   -> t.urgent /\ ~t.important
      [] key = "delegate" -> ~t.urgent /\ t.important
      [] key = "delete"   -> ~t.urgent /\ ~t.important

\* quadrants.map(quad => tasks.filter(quad.filter)): the tasks each quadrant shows
Render(ts) == [key \in KeySet |-> SelectSeq(ts, LAMBDA t : QuadrantFilter(key, t))]

IdleUI ==
    /\ tasks = <<>>
    /\ newTask = EmptyForm
    /\ shown = Render(<<>>)
    /\ aiLoading = FALSE
    /\ ai_call = NoCall
    /\ ui_event = NoEvent

\* the fast engine is up when the Routing Layer starts
IdleEngine == fast_up = TRUE

\* a server thread that is not in classify_task
NoThread ==
    [pc |-> "idle", query |-> T0, i |-> 0, similar |-> <<>>, path |-> "none",
     quadrant |-> 0]

ThreadIds == 1..MaxThreads

IdleThreads ==
    /\ mutex_ = 0
    /\ thread = [t \in ThreadIds |-> NoThread]

\* a handler of the App that is not awaiting anything
NoHandler ==
    [handler |-> "none", tasks |-> <<>>, id |-> 0, urgent |-> FALSE, important |-> FALSE]

CallIds == 1..MaxCalls

IdleApp ==
    /\ calls = [c \in CallIds |-> NoHandler]
    /\ next_id = 1
    /\ delete_requested = {}
    /\ mounted = "App"

NoPure == [fn |-> "none"]
NotApplied == [done |-> FALSE]

InitServer ==
    /\ global_classifier = FALSE
    /\ session_ = FALSE
    /\ training_texts_ = <<>>
    /\ training_labels_ = <<>>
    /\ training_embeddings_ = <<>>
    /\ request = NoRequest
    /\ last = NoResponse
    /\ prev = NoPrev

\* Fewer than four neighbours vote here, so no two quadrants can tie above the
\* base vote and the iteration order of the map cannot be observed: one order
\* is drawn.  SpecRepeat draws both.
Init ==
    /\ onnx_model_ok \in BOOLEAN
    /\ training_file \in TrainingFiles
    /\ map_order = "insertion"
    /\ InitServer
    /\ pure_in = NoPure
    /\ pure_out = NotApplied
    /\ IdleRouter /\ IdleStore /\ IdleUI
    /\ IdleEngine /\ IdleThreads /\ IdleApp

Next == Receive \/ Handle \/ Deliver

Spec == Init /\ [][Next]_vars

-----------------------------------------------------------------------------
(* Repeated requests: the caller compares the answers it got for one task *)

RepeatFiles ==
    {NoFile,
     [exists |-> TRUE, items |-> <<NumberItem(T3, 0)>>],
     [exists |-> TRUE, items |-> <<NumberItem(T1, 1)>>]}

InitRepeat ==
    /\ onnx_model_ok \in BOOLEAN
    /\ training_file \in RepeatFiles
    /\ map_order \in MapOrders
    /\ InitServer
    /\ pure_in = NoPure
    /\ pure_out = NotApplied
    /\ IdleRouter /\ IdleStore /\ IdleUI
    /\ IdleEngine /\ IdleThreads /\ IdleApp

NextRepeat == Receive \/ Handle \/ DeliverKeep

SpecRepeat == InitRepeat /\ [][NextRepeat]_vars

-----------------------------------------------------------------------------
(* Requests whose votes tie: four examples of two quadrants, all as near *)

\* four different texts of three tokens: their embeddings are the same
U3 == <<"a", " ", "a", " ", "a">>
V3 == <<"a", " ", "a", " ", "b">>
W3 == <<"b", " ", "a", " ", "a">>
X3 == <<"b", " ", "b", " ", "a">>

TieFile ==
    [exists |-> TRUE,
     items |-> <<NumberItem(U3, 1), NumberItem(V3, 1), NumberItem(W3, 2), NumberItem(X3, 2)>>]

ChromaAnswer(docs) == [status_code |-> 200, body_ok |-> TRUE, documents |-> docs]

TieResponses ==
    {Unavailable,
     ChromaAnswer(<<>>),
     ChromaAnswer(<<Doc(U3, 0), Doc(V3, 0)>>),
     ChromaAnswer(<<Doc(W3, 0), Doc(X3, 0)>>),
     ChromaAnswer(<<Doc(W3, 0), Doc(X3, 0), Doc(U3, 0), Doc(V3, 0)>>)}

\* two or more quadrants share the maximal score
Tied(scores) ==
    \E i, j \in 1..Len(scores) :
        /\ i # j
        /\ scores[i].score = scores[j].score
        /\ \A k \in 1..Len(scores) : scores[k].score <= scores[i].score

\* the handler runs on a corpus read from a well-formed file
HandleTie ==
    /\ request.pending
    /\ \E response \in TieResponses :
         LET c == Classifier
             infers == response.status_code # 200 /\ c.session
         IN  \E query_ok \in (IF infers THEN BOOLEAN ELSE {TRUE}) :
                 asyncHandleHttpRequest(request.body, response, AllOk(Len(c.texts)),
                                        query_ok, 0)
    /\ request' = NoRequest
    /\ UNCHANGED <<envVars, prev, pure_in, pure_out, routerVars, storeVars, uiVars, engineVars, threadVars, appVars>>

\* callback(resp), the caller remembering the answer and whether the vote was tied
DeliverTied ==
    /\ last.handled
    /\ prev' = IF last.status = 200
               THEN [set |-> TRUE, task |-> last.body.task, quadrant |-> last.quadrant,
                     best_score |-> last.best_score, total_weight |-> last.total_weight,
                     tied |-> Tied(weighted_vote(last.similar, training_texts_,
                                                 training_labels_, 0, map_order).scores)]
               ELSE prev
    /\ last' = NoResponse
    /\ UNCHANGED <<envVars, classifierVars, request, pure_in, pure_out, routerVars, storeVars, uiVars, engineVars, threadVars, appVars>>

InitTie ==
    /\ onnx_model_ok \in BOOLEAN
    /\ training_file = TieFile
    /\ map_order \in MapOrders
    /\ InitServer
    /\ pure_in = NoPure
    /\ pure_out = NotApplied
    /\ IdleRouter /\ IdleStore /\ IdleUI
    /\ IdleEngine /\ IdleThreads /\ IdleApp

NextTie == Receive \/ HandleTie \/ DeliverTied

SpecTie == InitTie /\ [][NextTie]_vars

-----------------------------------------------------------------------------
(* Requests over a corpus larger than max_similar, and over a corpus that   *)
(* holds one text twice                                                     *)

Y3 == <<"b", " ", "b", " ", "b">>

\* six examples, each as near to a query as the others
SixFile ==
    [exists |-> TRUE,
     items |-> <<NumberItem(U3, 1), NumberItem(V3, 1), NumberItem(W3, 2),
                 NumberItem(X3, 2), NumberItem(Y3, 3), NumberItem(T3, 0)>>]

\* 'a a a' was stored as Deleguj and later stored again as Zaplanuj
DupFile ==
    [exists |-> TRUE,
     items |-> <<NumberItem(U3, 2), NumberItem(U3, 1), NumberItem(V3, 1)>>]

ManyFiles == {SixFile, DupFile}

\* the documents of one answer: the first n texts of the six, all at distance 0
FirstDocs(n) == [i \in 1..n |-> Doc(SixFile.items[i].text, 0)]

ManyResponses ==
    {Unavailable, NetworkError}
        \cup {ChromaAnswer(FirstDocs(n)) : n \in {0, 1, max_similar, max_similar + 1}}

\* the handler runs on a corpus read from a well-formed file
HandleMany ==
    /\ request.pending
    /\ \E response \in ManyResponses :
         LET c == Classifier
             infers == response.status_code # 200 /\ c.session
         IN  \E query_ok \in (IF infers THEN BOOLEAN ELSE {TRUE}) :
                 asyncHandleHttpRequest(request.body, response, AllOk(Len(c.texts)),
                                        query_ok, 0)
    /\ request' = NoRequest
    /\ UNCHANGED <<envVars, prev, pure_in, pure_out, routerVars, storeVars, uiVars, engineVars, threadVars, appVars>>

InitMany ==
    /\ onnx_model_ok \in BOOLEAN
    /\ training_file \in ManyFiles
    /\ map_order \in MapOrders
    /\ InitServer
    /\ pure_in = NoPure
    /\ pure_out = NotApplied
    /\ IdleRouter /\ IdleStore /\ IdleUI
    /\ IdleEngine /\ IdleThreads /\ IdleApp

NextMany == Receive \/ HandleMany \/ Deliver

SpecMany == InitMany /\ [][NextMany]_vars

-----------------------------------------------------------------------------
(* Server threads in classify_task at the same time.  Drogon runs the       *)
(* handler on hardware_concurrency() threads (line 383); the classifier is  *)
(* the one static instance, already constructed.                            *)

ThreadFile == [exists |-> TRUE, items |-> <<NumberItem(T3, 0), NumberItem(T1, 1)>>]
ThreadQueries == {T1, T3}
ThreadResponses == {Unavailable, ChromaAnswer(<<Doc(T3, 0)>>)}

\* another thread is inside the push_back loop: a read of the vector races
\* with its writes
Racing(t) == \E u \in ThreadIds : u # t /\ thread[u].pc = "fill"

\* what training_embeddings_.empty() can yield: the value, or under a race
\* either value
EmptyReads(t) ==
    IF Racing(t) THEN BOOLEAN ELSE {training_embeddings_ = <<>>}

\* what training_embeddings_[i] can yield: the element, or under a race a
\* vector whose storage is gone
ElementReads(t, i) ==
    IF Racing(t) THEN {training_embeddings_[i], <<>>} ELSE {training_embeddings_[i]}

\* line 253: classify_task(task) is entered
classify_task_call(t) ==
    /\ thread[t].pc = "idle"
    /\ Len(training_embeddings_) <= MaxCached
    /\ \E query \in ThreadQueries :
         thread' = [thread EXCEPT ![t] = [NoThread EXCEPT !.pc = "chroma", !.query = query]]
    /\ UNCHANGED <<serverVars, pureVars, routerVars, storeVars, uiVars, engineVars, mutex_, appVars>>

\* lines 162-200: ChromaDB answers, or the query fails and the local search
\* is entered
chroma_query(t) ==
    /\ thread[t].pc = "chroma"
    /\ \E response \in ThreadResponses :
         thread' = IF response.status_code = 200 /\ response.body_ok
                   THEN [thread EXCEPT ![t].pc = "vote", ![t].path = "chroma",
                                       ![t].similar = sort_desc(parse_documents(response.documents))]
                   ELSE [thread EXCEPT ![t].pc = "check_empty", ![t].path = "local"]
    /\ UNCHANGED <<serverVars, pureVars, routerVars, storeVars, uiVars, engineVars, mutex_, appVars>>

\* line 206: if (training_embeddings_.empty()), read before the lock is taken
local_check_empty(t) ==
    /\ thread[t].pc = "check_empty"
    /\ \E empty \in EmptyReads(t) :
         thread' = [thread EXCEPT ![t].pc = IF empty THEN "lock" ELSE "embed_query"]
    /\ UNCHANGED <<serverVars, pureVars, routerVars, storeVars, uiVars, engineVars, mutex_, appVars>>

\* line 208: std::lock_guard<std::mutex> lock(mutex_)
local_lock(t) ==
    /\ thread[t].pc = "lock"
    /\ mutex_ = 0
    /\ mutex_' = t
    /\ thread' = [thread EXCEPT ![t].pc = "fill", ![t].i = 0]
    /\ UNCHANGED <<serverVars, pureVars, routerVars, storeVars, uiVars, engineVars, appVars>>

\* lines 209-211: one turn of the loop over training_texts_, or its end and
\* the release of the lock at line 212
local_fill(t) ==
    /\ thread[t].pc = "fill"
    /\ IF thread[t].i < Len(training_texts_)
       THEN /\ training_embeddings_' =
                   Append(training_embeddings_,
                          generate_embedding(session_, training_texts_[thread[t].i + 1], TRUE))
            /\ thread' = [thread EXCEPT ![t].i = @ + 1]
            /\ UNCHANGED mutex_
       ELSE /\ mutex_' = 0
            /\ thread' = [thread EXCEPT ![t].pc = "embed_query", ![t].i = 0]
            /\ UNCHANGED training_embeddings_
    /\ UNCHANGED <<envVars, global_classifier, session_, training_texts_, training_labels_, request, last, prev, pureVars, routerVars, storeVars, uiVars, engineVars, appVars>>

\* lines 214-215: the embedding of the query
local_embed_query(t) ==
    /\ thread[t].pc = "embed_query"
    /\ thread' = IF generate_embedding(session_, thread[t].query, TRUE) = <<>>
                 THEN [thread EXCEPT ![t].pc = "vote"]
                 ELSE [thread EXCEPT ![t].pc = "scan", ![t].i = 0]
    /\ UNCHANGED <<serverVars, pureVars, routerVars, storeVars, uiVars, engineVars, mutex_, appVars>>

\* lines 218-234: one turn of the loop over training_embeddings_, or its end
\* with the sort and the cut to max_similar
local_scan(t) ==
    /\ thread[t].pc = "scan"
    /\ LET i == thread[t].i + 1
           query_embedding == generate_embedding(session_, thread[t].query, TRUE)
       IN  IF i > Len(training_embeddings_) \/ i > Len(training_texts_)
           THEN LET similar == sort_desc(thread[t].similar)
                IN  thread' = [thread EXCEPT
                                  ![t].pc = "vote",
                                  ![t].similar = IF Len(similar) > max_similar
                                                 THEN SubSeq(similar, 1, max_similar)
                                                 ELSE similar]
           ELSE \E embedding \in ElementReads(t, i) :
                    LET similarity == cosine_similarity(query_embedding, embedding)
                    IN  thread' = [thread EXCEPT
                                      ![t].i = i,
                                      ![t].similar =
                                          IF FloatGT(similarity, Float(Threshold))
                                          THEN Append(@, Neighbour(training_texts_[i], similarity.v))
                                          ELSE @]
    /\ UNCHANGED <<serverVars, pureVars, routerVars, storeVars, uiVars, engineVars, mutex_, appVars>>

\* lines 256-288: the vote over the neighbours
classify_task_vote(t) ==
    /\ thread[t].pc = "vote"
    /\ thread' = [thread EXCEPT
                     ![t].pc = "done",
                     ![t].quadrant = weighted_vote(thread[t].similar, training_texts_,
                                                   training_labels_, 0, map_order).quadrant]
    /\ UNCHANGED <<serverVars, pureVars, routerVars, storeVars, uiVars, engineVars, mutex_, appVars>>

\* line 288: return best_quadrant; the thread is free for the next request
classify_task_return(t) ==
    /\ thread[t].pc = "done"
    /\ thread' = [thread EXCEPT ![t] = NoThread]
    /\ UNCHANGED <<serverVars, pureVars, routerVars, storeVars, uiVars, engineVars, mutex_, appVars>>

InitThreads ==
    /\ onnx_model_ok = TRUE
    /\ training_file = ThreadFile
    /\ map_order = "insertion"
    /\ global_classifier = TRUE
    /\ session_ = TRUE
    /\ training_texts_ = load_training_data(ThreadFile).texts
    /\ training_labels_ = load_training_data(ThreadFile).labels
    /\ training_embeddings_ = <<>>
    /\ request = NoRequest
    /\ last = NoResponse
    /\ prev = NoPrev
    /\ pure_in = NoPure
    /\ pure_out = NotApplied
    /\ IdleRouter /\ IdleStore /\ IdleUI
    /\ IdleEngine /\ IdleThreads /\ IdleApp

NextThreads ==
    \/ \E t \in ThreadIds : classify_task_call(t)
    \/ \E t \in ThreadIds : chroma_query(t)
    \/ \E t \in ThreadIds : local_check_empty(t)
    \/ \E t \in ThreadIds : local_lock(t)
    \/ \E t \in ThreadIds : local_fill(t)
    \/ \E t \in ThreadIds : local_embed_query(t)
    \/ \E t \in ThreadIds : local_scan(t)
    \/ \E t \in ThreadIds : classify_task_vote(t)
    \/ \E t \in ThreadIds : classify_task_return(t)

SpecThreads == InitThreads /\ [][NextThreads]_vars

-----------------------------------------------------------------------------
(* The pure functions on their own *)

Vectors == SeqsUpTo(-1..1, MaxDim)
CosineInputs == {[fn |-> "cosine", a |-> a, b |-> b] : a \in Vectors, b \in Vectors}

PureTexts == {T0, T1, T2, T3}
PureQueries == {T1}
ScanInputs ==
    {[fn |-> "scan",
      query_embedding |-> generate_embedding(TRUE, q, TRUE),
      texts |-> ts,
      embeddings |-> [i \in 1..Len(ts) |-> generate_embedding(TRUE, ts[i], TRUE)]] :
         q \in PureQueries, ts \in SeqsUpTo(PureTexts, MaxCorpus)}

ApplyCosine ==
    /\ pure_in.fn = "cosine"
    /\ ~pure_out.done
    /\ pure_out' = [done |-> TRUE, value |-> cosine_similarity(pure_in.a, pure_in.b)]
    /\ UNCHANGED <<envVars, classifierVars, request, last, prev, pure_in, routerVars, storeVars, uiVars, engineVars, threadVars, appVars>>

ApplyScan ==
    /\ pure_in.fn = "scan"
    /\ ~pure_out.done
    /\ pure_out' = [done |-> TRUE,
                    similar |-> scan_sort_truncate(pure_in.query_embedding,
                                                   pure_in.embeddings, pure_in.texts)]
    /\ UNCHANGED <<envVars, classifierVars, request, last, prev, pure_in, routerVars, storeVars, uiVars, engineVars, threadVars, appVars>>

InitPure ==
    /\ onnx_model_ok = TRUE
    /\ training_file = NoFile
    /\ map_order = "insertion"
    /\ InitServer
    /\ pure_in \in CosineInputs \cup ScanInputs
    /\ pure_out = NotApplied
    /\ IdleRouter /\ IdleStore /\ IdleUI
    /\ IdleEngine /\ IdleThreads /\ IdleApp

NextPure == ApplyCosine \/ ApplyScan

SpecPure == InitPure /\ [][NextPure]_vars

-----------------------------------------------------------------------------
(* The local retrieval under two similarity thresholds *)

ThresholdTexts == {T1, T2, T3}
MinSimilarities == {0, Threshold, 2 * Threshold, Scale}
ThresholdInputs ==
    {[fn |-> "threshold",
      query_embedding |-> generate_embedding(TRUE, T1, TRUE),
      texts |-> ts,
      embeddings |-> [i \in 1..Len(ts) |-> generate_embedding(TRUE, ts[i], TRUE)],
      m1 |-> mm[1],
      m2 |-> mm[2]] :
         ts \in SeqsUpTo(ThresholdTexts, MaxScan),
         mm \in {p \in MinSimilarities \X MinSimilarities : p[1] <= p[2]}}

ApplyThresholds ==
    /\ pure_in.fn = "threshold"
    /\ ~pure_out.done
    /\ pure_out' = [done |-> TRUE,
                    at_m1 |-> scan_sort_truncate_min(pure_in.query_embedding,
                                                     pure_in.embeddings, pure_in.texts,
                                                     pure_in.m1),
                    at_m2 |-> scan_sort_truncate_min(pure_in.query_embedding,
                                                     pure_in.embeddings, pure_in.texts,
                                                     pure_in.m2)]
    /\ UNCHANGED <<serverVars, pure_in, routerVars, storeVars, uiVars, engineVars, threadVars, appVars>>

InitThreshold ==
    /\ onnx_model_ok = TRUE
    /\ training_file = NoFile
    /\ map_order = "insertion"
    /\ InitServer
    /\ pure_in \in ThresholdInputs
    /\ pure_out = NotApplied
    /\ IdleRouter /\ IdleStore /\ IdleUI
    /\ IdleEngine /\ IdleThreads /\ IdleApp

NextThreshold == ApplyThresholds

SpecThreshold == InitThreshold /\ [][NextThreshold]_vars

-----------------------------------------------------------------------------
(* The Routing Layer: one state machine per request, one shared health flag *)

LengthThreshold == 1000

RouteText(n, nl) == [len |-> n, newline |-> nl]
RouteTexts ==
    {RouteText(LengthThreshold - 1, FALSE), RouteText(LengthThreshold, FALSE),
     RouteText(LengthThreshold + 1, FALSE), RouteText(LengthThreshold - 1, TRUE)}

\* a text under the length threshold and without embedded newlines
FastEligible(text) == text.len < LengthThreshold /\ ~text.newline

\* choose_engine looking at the health flag only
choose_engine_any_length(text, healthy) == IF healthy THEN "fast" ELSE "fallback"

\* choose_engine trying the fast engine whatever the health flag says
choose_engine_no_health(text, healthy) == IF FastEligible(text) THEN "fast" ELSE "fallback"

\* the routing decision: the fast engine for an eligible text while the engine
\* is healthy, the fallback otherwise
choose_engine(text, healthy) ==
    IF FastEligible(text) /\ healthy THEN "fast" ELSE "fallback"

\* Idle -> Received
RouteReceive(r) ==
    /\ route[r].state = "Idle"
    /\ \E text \in RouteTexts :
         route' = [route EXCEPT ![r] = [NoRoute EXCEPT !.state = "Received", !.text = text]]
    /\ UNCHANGED <<serverVars, pureVars, fast_healthy, storeVars, uiVars, engineVars, threadVars, appVars>>

\* Received -> RouteDecision
RouteDecide(r) ==
    /\ route[r].state = "Received"
    /\ route' = [route EXCEPT ![r].state = "RouteDecision",
                              ![r].engine = choose_engine(route[r].text, fast_healthy),
                              ![r].flag_seen = fast_healthy]
    /\ UNCHANGED <<serverVars, pureVars, fast_healthy, storeVars, uiVars, engineVars, threadVars, appVars>>

\* RouteDecision -> Classifying: the call to the chosen engine starts
RouteCall(r) ==
    /\ route[r].state = "RouteDecision"
    /\ route' = [route EXCEPT ![r].state = "Classifying",
                              ![r].fast_calls = @ + (IF route[r].engine = "fast" THEN 1 ELSE 0)]
    /\ UNCHANGED <<serverVars, pureVars, fast_healthy, storeVars, uiVars, engineVars, threadVars, appVars>>

\* the fast engine answers, or it throws or times out: Completed or Degraded,
\* and the health flag records the outcome
FastReturns(r) ==
    /\ route[r].state = "Classifying"
    /\ route[r].engine = "fast"
    /\ \E ok \in BOOLEAN :
         /\ fast_healthy' = ok
         /\ route' = IF ok
                     THEN [route EXCEPT ![r].state = "Completed"]
                     ELSE [route EXCEPT ![r].state = "Degraded", ![r].degraded = @ + 1]
    /\ UNCHANGED <<serverVars, pureVars, storeVars, uiVars, engineVars, threadVars, appVars>>

\* RouteRetry calling the fast engine again instead of the fallback
RouteRetry_fast_again(r) ==
    /\ route[r].state = "Degraded"
    /\ route' = [route EXCEPT ![r].state = "Classifying", ![r].engine = "fast"]
    /\ UNCHANGED <<serverVars, pureVars, fast_healthy, storeVars, uiVars, engineVars, threadVars, appVars>>

\* Degraded -> Classifying: retry on the fallback path
RouteRetry(r) ==
    /\ route[r].state = "Degraded"
    /\ route' = [route EXCEPT ![r].state = "Classifying", ![r].engine = "fallback"]
    /\ UNCHANGED <<serverVars, pureVars, fast_healthy, storeVars, uiVars, engineVars, threadVars, appVars>>

\* the fallback answers, or it fails too and all paths are exhausted
FallbackReturns(r) ==
    /\ route[r].state = "Classifying"
    /\ route[r].engine = "fallback"
    /\ \E ok \in BOOLEAN :
         route' = [route EXCEPT ![r].state = IF ok THEN "Completed" ELSE "Failed"]
    /\ UNCHANGED <<serverVars, pureVars, fast_healthy, storeVars, uiVars, engineVars, threadVars, appVars>>

\* the result is handed to the HTTP boundary; the request is over
RouteReturn(r) ==
    /\ route[r].state \in {"Completed", "Failed"}
    /\ route' = [route EXCEPT ![r] = NoRoute]
    /\ UNCHANGED <<serverVars, pureVars, fast_healthy, storeVars, uiVars, engineVars, threadVars, appVars>>

\* what the Routing Layer does for a request that has been received
RouteStep(r) ==
    \/ RouteDecide(r)
    \/ RouteCall(r)
    \/ FastReturns(r)
    \/ RouteRetry(r)
    \/ FallbackReturns(r)
    \/ RouteReturn(r)

InitRoute ==
    /\ onnx_model_ok = TRUE
    /\ training_file = NoFile
    /\ map_order = "insertion"
    /\ InitServer
    /\ pure_in = NoPure
    /\ pure_out = NotApplied
    /\ IdleRouter /\ IdleStore /\ IdleUI
    /\ IdleEngine /\ IdleThreads /\ IdleApp

NextRoute ==
    \/ \E r \in RouteIds : RouteReceive(r)
    \/ \E r \in RouteIds : RouteDecide(r)
    \/ \E r \in RouteIds : RouteCall(r)
    \/ \E r \in RouteIds : FastReturns(r)
    \/ \E r \in RouteIds : RouteRetry(r)
    \/ \E r \in RouteIds : FallbackReturns(r)
    \/ \E r \in RouteIds : RouteReturn(r)

SpecRoute == InitRoute /\ [][NextRoute]_vars

\* each request runs on its own thread or task, and each engine call returns
\* or times out
SpecRouteFair == SpecRoute /\ \A r \in RouteIds : WF_vars(RouteStep(r))

-----------------------------------------------------------------------------
(* The health flag while the fast engine goes down and comes back *)

\* the fast engine stops answering
EngineFails ==
    /\ fast_up
    /\ fast_up' = FALSE
    /\ UNCHANGED <<serverVars, pureVars, routerVars, storeVars, uiVars, threadVars, appVars>>

\* the fast engine answers again
EngineRecovers ==
    /\ ~fast_up
    /\ fast_up' = TRUE
    /\ UNCHANGED <<serverVars, pureVars, routerVars, storeVars, uiVars, threadVars, appVars>>

\* FastAnswers leaving the health flag as it is
FastAnswers_flag_untouched(r) ==
    /\ route[r].state = "Classifying"
    /\ route[r].engine = "fast"
    /\ route' = IF fast_up
                THEN [route EXCEPT ![r].state = "Completed"]
                ELSE [route EXCEPT ![r].state = "Degraded", ![r].degraded = @ + 1]
    /\ UNCHANGED <<serverVars, pureVars, fast_healthy, storeVars, uiVars, engineVars, threadVars, appVars>>

\* the call of the fast engine ends: an engine that is up answers, one that is
\* down throws or times out; the health flag records the outcome
FastAnswers(r) ==
    /\ route[r].state = "Classifying"
    /\ route[r].engine = "fast"
    /\ fast_healthy' = fast_up
    /\ route' = IF fast_up
                THEN [route EXCEPT ![r].state = "Completed"]
                ELSE [route EXCEPT ![r].state = "Degraded", ![r].degraded = @ + 1]
    /\ UNCHANGED <<serverVars, pureVars, storeVars, uiVars, engineVars, threadVars, appVars>>

\* a request with a text the fast engine may get arrives
RouteReceiveEligible(r) ==
    /\ RouteReceive(r)
    /\ FastEligible(route'[r].text)

\* what the Routing Layer does for a request that has been received
HealthStep(r) ==
    \/ RouteDecide(r)
    \/ RouteCall(r)
    \/ FastAnswers(r)
    \/ RouteRetry(r)
    \/ FallbackReturns(r)
    \/ RouteReturn(r)

InitHealth == InitRoute

NextHealth ==
    \/ \E r \in RouteIds : RouteReceive(r)
    \/ \E r \in RouteIds : RouteDecide(r)
    \/ \E r \in RouteIds : RouteCall(r)
    \/ \E r \in RouteIds : FastAnswers(r)
    \/ \E r \in RouteIds : RouteRetry(r)
    \/ \E r \in RouteIds : FallbackReturns(r)
    \/ \E r \in RouteIds : RouteReturn(r)
    \/ EngineFails
    \/ EngineRecovers

SpecHealth == InitHealth /\ [][NextHealth]_vars

\* each request runs to its end, and requests the fast engine may get keep
\* arriving
SpecHealthFair ==
    SpecHealth /\ \A r \in RouteIds : WF_vars(HealthStep(r)) /\ SF_vars(RouteReceiveEligible(r))

-----------------------------------------------------------------------------
(* The Training Corpus Store: addExample under the write lock *)

\* a TrainingExample; its embedding is computed lazily, not at insert time
TrainingExample(t, q) == [text |-> t, quadrant |-> q, embedding |-> <<>>]

NewExamples == {TrainingExample(T1, 0), TrainingExample(T1, 1), TrainingExample(T3, 0)}
SeedCorpora == {<<>>, <<TrainingExample(T1, 0)>>}

\* allExamples(): the examples in insertion order
allExamples == examples

\* examplesByQuadrant(q): the examples of quadrant q, in the same order
examplesByQuadrant(q) == SelectSeq(examples, LAMBDA e : e.quadrant = q)

\* addExample(text, quadrant) is called
addExample_call(w) ==
    /\ writer[w].pc = "idle"
    /\ \E e \in NewExamples :
         writer' = [writer EXCEPT ![w] = [NoWriter EXCEPT !.pc = "acquire",
                                                          !.text = e.text,
                                                          !.quadrant = e.quadrant,
                                                          !.len_at_call = Len(examples)]]
    /\ UNCHANGED <<serverVars, pureVars, routerVars, examples, write_lock, uiVars, engineVars, threadVars, appVars>>

\* addExample_lock entering the critical section without waiting for the lock
addExample_lock_unguarded(w) ==
    /\ writer[w].pc = "acquire"
    /\ write_lock' = w
    /\ writer' = [writer EXCEPT ![w].pc = "read"]
    /\ UNCHANGED <<serverVars, pureVars, routerVars, examples, uiVars, engineVars, threadVars, appVars>>

\* the mutual-exclusion lock around the mutation of the backing sequence
addExample_lock(w) ==
    /\ writer[w].pc = "acquire"
    /\ write_lock = 0
    /\ write_lock' = w
    /\ writer' = [writer EXCEPT ![w].pc = "read"]
    /\ UNCHANGED <<serverVars, pureVars, routerVars, examples, uiVars, engineVars, threadVars, appVars>>

\* the append, first half: the backing sequence is read
addExample_read(w) ==
    /\ writer[w].pc = "read"
    /\ writer' = [writer EXCEPT ![w].pc = "write", ![w].seen = examples]
    /\ UNCHANGED <<serverVars, pureVars, routerVars, examples, write_lock, uiVars, engineVars, threadVars, appVars>>

\* addExample_write keeping the corpus free of duplicates
addExample_write_dedup(w) ==
    /\ writer[w].pc = "write"
    /\ examples' = IF \E i \in 1..Len(writer[w].seen) :
                          writer[w].seen[i] = TrainingExample(writer[w].text, writer[w].quadrant)
                   THEN writer[w].seen
                   ELSE Append(writer[w].seen,
                               TrainingExample(writer[w].text, writer[w].quadrant))
    /\ writer' = [writer EXCEPT ![w].pc = "release", ![w].seen = <<>>]
    /\ UNCHANGED <<serverVars, pureVars, routerVars, write_lock, uiVars, engineVars, threadVars, appVars>>

\* the append, second half: the sequence with the new example is stored
addExample_write(w) ==
    /\ writer[w].pc = "write"
    /\ examples' = Append(writer[w].seen,
                          TrainingExample(writer[w].text, writer[w].quadrant))
    /\ writer' = [writer EXCEPT ![w].pc = "release", ![w].seen = <<>>]
    /\ UNCHANGED <<serverVars, pureVars, routerVars, write_lock, uiVars, engineVars, threadVars, appVars>>

\* the lock is released and addExample returns the new example
addExample_unlock(w) ==
    /\ writer[w].pc = "release"
    /\ write_lock' = 0
    /\ writer' = [writer EXCEPT ![w].pc = "returned", ![w].result = "ok"]
    /\ UNCHANGED <<serverVars, pureVars, routerVars, examples, uiVars, engineVars, threadVars, appVars>>

InitStore ==
    /\ onnx_model_ok = TRUE
    /\ training_file = NoFile
    /\ map_order = "insertion"
    /\ InitServer
    /\ pure_in = NoPure
    /\ pure_out = NotApplied
    /\ IdleRouter
    /\ examples \in SeedCorpora
    /\ write_lock = 0
    /\ writer = [w \in WriterIds |-> NoWriter]
    /\ IdleUI
    /\ IdleEngine /\ IdleThreads /\ IdleApp

NextStore ==
    \/ \E w \in WriterIds : addExample_call(w)
    \/ \E w \in WriterIds : addExample_lock(w)
    \/ \E w \in WriterIds : addExample_read(w)
    \/ \E w \in WriterIds : addExample_write(w)
    \/ \E w \in WriterIds : addExample_unlock(w)

SpecStore == InitStore /\ [][NextStore]_vars

-----------------------------------------------------------------------------
(* The web Matrix component (web/src/components/Matrix.tsx) *)

\* a Task of the board; its title and description are read by no handler modelled
Task(id, u, i) == [_id |-> id, urgent |-> u, important |-> i]

\* titles are sequences of words
Titles == {<<>>, <<" ">>, <<"Pilne", "kup">>}

ToLowerCase(word) == IF word = "Pilne" THEN "pilne" ELSE word

\* title.trim() is the empty string
IsBlank(title) == \A i \in 1..Len(title) : title[i] = " "

\* the word lists of the catch block, without their diacritics
urgentWords ==
    {"urgent", "pilny", "pilne", "teraz", "today", "dzisiaj", "natychmiast", "asap",
     "deadline", "termin", "krytyczny", "goracy", "pilnego"}
importantWords ==
    {"important", "wazny", "wazne", "projekt", "kluczowy", "strategiczny", "biznes",
     "firma", "glowny", "znaczenie", "decydujacy"}

\* words.some(word => lowerTitle.includes(word))
SomeIncluded(words, title) == \E i \in 1..Len(title) : ToLowerCase(title[i]) \in words

\* a JavaScript number that may be undefined
Undefined == [defined |-> FALSE, v |-> 0]
Number(n) == [defined |-> TRUE, v |-> n]

\* a || b on numbers: undefined and 0 are falsy
JsOr(a, b) == IF a.defined /\ a.v # 0 THEN a ELSE b

\* quadrantToBool with the flags of quadrants 1 and 2 exchanged
quadrantToBool_exchanged(quad) ==
    [urgent |-> (quad = 0 \/ quad = 2), important |-> (quad = 0 \/ quad = 1)]

\* quadrantToBool of handleAnalysisComplete
quadrantToBool(quad) ==
    [urgent |-> (quad = 0 \/ quad = 1), important |-> (quad = 0 \/ quad = 2)]

\* quadrantToState of onDragEnd; defined is FALSE for a key that is not in the table
quadrantToState(key) ==
    CASE key = "do"       -> [defined |-> TRUE, urgent |-> TRUE, important |-> TRUE]
      [] key = "decide"   -> [defined |-> TRUE, urgent |-> TRUE, important |-> FALSE]
      [] key = "delegate" -> [defined |-> TRUE, urgent |-> FALSE, important |-> TRUE]
      [] key = "delete"   -> [defined |-> TRUE, urgent |-> FALSE, important |-> FALSE]
      [] OTHER            -> [defined |-> FALSE, urgent |-> FALSE, important |-> FALSE]

\* the droppable a task is rendered in
DroppableOf(t) == CHOOSE key \in KeySet : QuadrantFilter(key, t)

\* the answer of classifyTask, with the flags as ClassificationController sets them
ClassificationResult(quadrant) ==
    [quadrant |-> quadrant,
     urgent |-> response_urgent(quadrant),
     important |-> response_important(quadrant)]

LangChainQuadrants == {Undefined} \cup {Number(q) : q \in -1..3}
RagQuadrants == {Number(q) : q \in 0..3}

\* onChange of the title input
onChangeTitle ==
    /\ \E title \in Titles : newTask' = [newTask EXCEPT !.title = title]
    /\ ui_event' = NoEvent
    /\ UNCHANGED <<serverVars, pureVars, routerVars, storeVars, tasks, shown, aiLoading, ai_call, engineVars, threadVars, appVars>>

\* onChange of the two checkboxes
onChangeFlags ==
    /\ \/ \E checked \in BOOLEAN : newTask' = [newTask EXCEPT !.urgent = checked]
       \/ \E checked \in BOOLEAN : newTask' = [newTask EXCEPT !.important = checked]
    /\ ui_event' = NoEvent
    /\ UNCHANGED <<serverVars, pureVars, routerVars, storeVars, tasks, shown, aiLoading, ai_call, engineVars, threadVars, appVars>>

\* handleAnalysisComplete(analysis)
handleAnalysisComplete ==
    /\ \E langchain \in LangChainQuadrants, rag \in RagQuadrants :
         LET suggestedQuadrant == JsOr(langchain, rag)
         IN  /\ newTask' = IF suggestedQuadrant.defined /\ suggestedQuadrant.v >= 0
                           THEN LET boolState == quadrantToBool(suggestedQuadrant.v)
                                IN  [newTask EXCEPT !.urgent = boolState.urgent,
                                                    !.important = boolState.important]
                           ELSE newTask
             /\ ui_event' = [handler |-> "handleAnalysisComplete",
                             quadrant |-> suggestedQuadrant.v, id |-> 0,
                             langchain |-> langchain]
    /\ UNCHANGED <<serverVars, pureVars, routerVars, storeVars, tasks, shown, aiLoading, ai_call, engineVars, threadVars, appVars>>

\* predictQuadrant(newTask.title) with a title that trims to nothing: line 238
\* returns before anything is set or requested
predictQuadrant_blank ==
    /\ ~aiLoading
    /\ IsBlank(newTask.title)
    /\ ui_event' = [handler |-> "predictQuadrant_return", quadrant |-> -1, id |-> 0]
    /\ UNCHANGED <<serverVars, pureVars, routerVars, storeVars, tasks, newTask, shown, aiLoading, ai_call, engineVars, threadVars, appVars>>

\* predictQuadrant(newTask.title) up to its await; the button is disabled while
\* aiLoading is true
predictQuadrant_start ==
    /\ ~aiLoading
    /\ ~IsBlank(newTask.title)
    /\ aiLoading' = TRUE
    /\ ai_call' = [pending |-> TRUE, title |-> newTask.title, newTask |-> newTask]
    /\ ui_event' = NoEvent
    /\ UNCHANGED <<serverVars, pureVars, routerVars, storeVars, tasks, newTask, shown, engineVars, threadVars, appVars>>

\* classifyTask resolved: the try block goes on, then finally
predictQuadrant_resolved ==
    /\ ai_call.pending
    /\ \E quadrant \in 0..3 :
         LET result == ClassificationResult(quadrant)
         IN  /\ newTask' = [ai_call.newTask EXCEPT !.urgent = result.urgent,
                                                   !.important = result.important]
             /\ ui_event' = [handler |-> "predictQuadrant", quadrant |-> quadrant, id |-> 0]
    /\ aiLoading' = FALSE
    /\ ai_call' = NoCall
    /\ UNCHANGED <<serverVars, pureVars, routerVars, storeVars, tasks, shown, engineVars, threadVars, appVars>>

\* predictQuadrant_rejected looking for the keywords in the title as typed
predictQuadrant_rejected_case_sensitive ==
    /\ ai_call.pending
    /\ newTask' = [ai_call.newTask EXCEPT
                       !.urgent = \E i \in 1..Len(ai_call.title) : ai_call.title[i] \in urgentWords,
                       !.important = \E i \in 1..Len(ai_call.title) : ai_call.title[i] \in importantWords]
    /\ ui_event' = [handler |-> "predictQuadrant_catch", quadrant |-> -1, id |-> 0]
    /\ aiLoading' = FALSE
    /\ ai_call' = NoCall
    /\ UNCHANGED <<serverVars, pureVars, routerVars, storeVars, tasks, shown, engineVars, threadVars, appVars>>

\* classifyTask threw: the catch block with the keyword heuristic, then finally
predictQuadrant_rejected ==
    /\ ai_call.pending
    /\ newTask' = [ai_call.newTask EXCEPT
                       !.urgent = SomeIncluded(urgentWords, ai_call.title),
                       !.important = SomeIncluded(importantWords, ai_call.title)]
    /\ ui_event' = [handler |-> "predictQuadrant_catch", quadrant |-> -1, id |-> 0]
    /\ aiLoading' = FALSE
    /\ ai_call' = NoCall
    /\ UNCHANGED <<serverVars, pureVars, routerVars, storeVars, tasks, shown, engineVars, threadVars, appVars>>

\* handleSubmit: onAddTask(newTask), the parent appends the task with a new id
\* and the board is rendered again; the form is emptied
handleSubmit ==
    /\ newTask.title # <<>>
    /\ Len(tasks) < MaxTasks
    /\ tasks' = Append(tasks, Task(Len(tasks) + 1, newTask.urgent, newTask.important))
    /\ shown' = Render(tasks')
    /\ newTask' = EmptyForm
    /\ ui_event' = [handler |-> "handleSubmit", quadrant |-> -1, id |-> Len(tasks) + 1]
    /\ UNCHANGED <<serverVars, pureVars, routerVars, storeVars, aiLoading, ai_call, engineVars, threadVars, appVars>>

\* onDragEnd(result): a task is dropped on a quadrant, or outside every quadrant
onDragEnd ==
    /\ \E n \in 1..Len(tasks), destination \in KeySet \cup {"null"} :
         LET t == tasks[n]
             newState == quadrantToState(destination)
         IN  /\ tasks' = IF destination = "null" \/ DroppableOf(t) = destination
                              \/ ~newState.defined
                         THEN tasks
                         ELSE [tasks EXCEPT ![n].urgent = newState.urgent,
                                            ![n].important = newState.important]
             /\ ui_event' = [handler |-> "onDragEnd",
                             quadrant |-> IF destination = "null" THEN -1
                                          ELSE CHOOSE q \in 0..3 : QuadrantKeys[q + 1] = destination,
                             id |-> t._id]
    /\ shown' = Render(tasks')
    /\ UNCHANGED <<serverVars, pureVars, routerVars, storeVars, newTask, aiLoading, ai_call, engineVars, threadVars, appVars>>

InitMatrix ==
    /\ onnx_model_ok = TRUE
    /\ training_file = NoFile
    /\ map_order = "insertion"
    /\ InitServer
    /\ pure_in = NoPure
    /\ pure_out = NotApplied
    /\ IdleRouter /\ IdleStore /\ IdleUI
    /\ IdleEngine /\ IdleThreads /\ IdleApp

NextMatrix ==
    \/ onChangeTitle
    \/ onChangeFlags
    \/ handleAnalysisComplete
    \/ predictQuadrant_blank
    \/ predictQuadrant_start
    \/ predictQuadrant_resolved
    \/ predictQuadrant_rejected
    \/ handleSubmit
    \/ onDragEnd

SpecMatrix == InitMatrix /\ [][NextMatrix]_vars

-----------------------------------------------------------------------------
(* The web App: the task list and its asynchronous handlers.  A handler is  *)
(* a closure of the render it was created in: the tasks it reads after its  *)
(* await are the tasks of that render.                                      *)

\* useState of AppContent: the three example tasks
ExampleTasks == <<Task(1, TRUE, TRUE), Task(2, TRUE, FALSE), Task(3, FALSE, TRUE)>>

\* useState of the mounted component
InitialTasks == IF mounted = "AppContent" THEN ExampleTasks ELSE <<>>

\* ids the task server and the mock can still give out
FreshIds == next_id <= Len(InitialTasks) + MaxTasks

\* App.addTask(newTask) up to its await: the POST is sent with the task of the
\* form
App_addTask_start(c) ==
    /\ mounted = "App"
    /\ calls[c].handler = "none"
    /\ calls' = [calls EXCEPT ![c] = [handler |-> "addTask", tasks |-> tasks, id |-> 0,
                                       urgent |-> newTask.urgent,
                                       important |-> newTask.important]]
    /\ UNCHANGED <<serverVars, pureVars, routerVars, storeVars, uiVars, engineVars, threadVars, next_id, delete_requested, mounted>>

\* the POST answered with the created task: setTasks([...tasks, data])
App_addTask_resolved(c) ==
    /\ mounted = "App"
    /\ calls[c].handler = "addTask"
    /\ FreshIds
    /\ tasks' = Append(calls[c].tasks, Task(next_id, calls[c].urgent, calls[c].important))
    /\ shown' = Render(tasks')
    /\ next_id' = next_id + 1
    /\ calls' = [calls EXCEPT ![c] = NoHandler]
    /\ UNCHANGED <<serverVars, pureVars, routerVars, storeVars, newTask, aiLoading, ai_call, ui_event, engineVars, threadVars, delete_requested, mounted>>

\* the POST failed: the catch block logs and nothing is set
App_addTask_rejected(c) ==
    /\ mounted = "App"
    /\ calls[c].handler = "addTask"
    /\ calls' = [calls EXCEPT ![c] = NoHandler]
    /\ UNCHANGED <<serverVars, pureVars, routerVars, storeVars, uiVars, engineVars, threadVars, next_id, delete_requested, mounted>>

\* AppContent.addTask(newTask): the mock creates the task at once
AppContent_addTask ==
    /\ mounted = "AppContent"
    /\ FreshIds
    /\ tasks' = Append(tasks, Task(next_id, newTask.urgent, newTask.important))
    /\ shown' = Render(tasks')
    /\ next_id' = next_id + 1
    /\ UNCHANGED <<serverVars, pureVars, routerVars, storeVars, newTask, aiLoading, ai_call, ui_event, engineVars, threadVars, calls, delete_requested, mounted>>

\* AppContent.deleteTask(id) up to its await: the DELETE is sent
AppContent_deleteTask_start(c) ==
    /\ mounted = "AppContent"
    /\ Cardinality(delete_requested) < MaxDeletes
    /\ calls[c].handler = "none"
    /\ \E n \in 1..Len(tasks) :
         /\ calls' = [calls EXCEPT ![c] = [NoHandler EXCEPT !.handler = "deleteTask",
                                                            !.tasks = tasks,
                                                            !.id = tasks[n]._id]]
         /\ delete_requested' = delete_requested \cup {tasks[n]._id}
    /\ UNCHANGED <<serverVars, pureVars, routerVars, storeVars, uiVars, engineVars, threadVars, next_id, mounted>>

\* the DELETE answered: setTasks(tasks.filter(t => t._id !== id))
AppContent_deleteTask_resolved(c) ==
    /\ mounted = "AppContent"
    /\ calls[c].handler = "deleteTask"
    /\ tasks' = SelectSeq(calls[c].tasks, LAMBDA t : t._id # calls[c].id)
    /\ shown' = Render(tasks')
    /\ calls' = [calls EXCEPT ![c] = NoHandler]
    /\ UNCHANGED <<serverVars, pureVars, routerVars, storeVars, newTask, aiLoading, ai_call, ui_event, engineVars, threadVars, next_id, delete_requested, mounted>>

\* the DELETE failed: the catch block logs and nothing is set
AppContent_deleteTask_rejected(c) ==
    /\ mounted = "AppContent"
    /\ calls[c].handler = "deleteTask"
    /\ calls' = [calls EXCEPT ![c] = NoHandler]
    /\ UNCHANGED <<serverVars, pureVars, routerVars, storeVars, uiVars, engineVars, threadVars, next_id, delete_requested, mounted>>

\* the updates of a task dragged to the first or to the last quadrant
Updates == {quadrantToState(QuadrantKeys[1]), quadrantToState(QuadrantKeys[4])}

\* onUpdateTask(id, updates) of either component: setTasks(tasks.map(...)),
\* with the updates that onDragEnd passes
onUpdateTask ==
    /\ \E n \in 1..Len(tasks), updates \in Updates :
         tasks' = [tasks EXCEPT ![n].urgent = updates.urgent,
                                ![n].important = updates.important]
    /\ shown' = Render(tasks')
    /\ UNCHANGED <<serverVars, pureVars, routerVars, storeVars, newTask, aiLoading, ai_call, ui_event, engineVars, threadVars, appVars>>

\* either component after it was mounted; App after its fetchTasks answered
\* with the empty list of a new server
InitApp ==
    /\ onnx_model_ok = TRUE
    /\ training_file = NoFile
    /\ map_order = "insertion"
    /\ InitServer
    /\ pure_in = NoPure
    /\ pure_out = NotApplied
    /\ IdleRouter /\ IdleStore /\ IdleEngine /\ IdleThreads
    /\ mounted \in {"App", "AppContent"}
    /\ tasks = InitialTasks
    /\ shown = Render(tasks)
    /\ newTask = EmptyForm
    /\ aiLoading = FALSE
    /\ ai_call = NoCall
    /\ ui_event = NoEvent
    /\ calls = [c \in CallIds |-> NoHandler]
    /\ next_id = Len(tasks) + 1
    /\ delete_requested = {}

NextApp ==
    \/ \E c \in CallIds : App_addTask_start(c)
    \/ \E c \in CallIds : App_addTask_resolved(c)
    \/ \E c \in CallIds : App_addTask_rejected(c)
    \/ AppContent_addTask
    \/ \E c \in CallIds : AppContent_deleteTask_start(c)
    \/ \E c \in CallIds : AppContent_deleteTask_resolved(c)
    \/ \E c \in CallIds : AppContent_deleteTask_rejected(c)
    \/ onUpdateTask

SpecApp == InitApp /\ [][NextApp]_vars

-----------------------------------------------------------------------------
(* Properties *)

Classified == last.handled /\ last.status = 200

\* C1: the confidence of every classification, the winning score divided by
\* totalWeight, lies in [0, 1], whatever neighbours (similarities in (0.3, 1])
\* were retrieved.
C1_ConfidenceInUnitInterval ==
    Classified =>
        /\ \A j \in 1..Len(last.similar) :
               last.similar[j].similarity > Threshold /\ last.similar[j].similarity <= Scale
        /\ last.total_weight > 0
        /\ 0 <= last.best_score
        /\ last.best_score <= last.total_weight

\* a classification over two neighbours whose confidence is strictly inside (0, 1)
C1_Witness ==
    /\ Classified
    /\ Len(last.similar) >= 2
    /\ 0 < last.best_score
    /\ last.best_score < last.total_weight

ZeroNorm(v) == \A i \in 1..Len(v) : v[i] = 0

\* C2: similarity(a, b) is exactly 0, never NaN, whenever a or b has zero norm
\* (vectors of equal dimension).
C2_ZeroNormGivesZero ==
    (/\ pure_in.fn = "cosine"
     /\ pure_out.done
     /\ Len(pure_in.a) = Len(pure_in.b)
     /\ Len(pure_in.a) > 0
     /\ (ZeroNorm(pure_in.a) \/ ZeroNorm(pure_in.b)))
        => pure_out.value = Float(0)

\* C3: with an empty corpus every classification is DoNow with confidence 1.0:
\* only the base vote counts and totalWeight is 1.0.
C3_EmptyCorpusDoNow ==
    (Classified /\ training_texts_ = <<>>) =>
        /\ last.quadrant = 0
        /\ last.total_weight = BaseWeight
        /\ last.best_score = last.total_weight

\* an empty corpus, and ChromaDB still returned neighbours
C3_Witness ==
    /\ Classified
    /\ training_texts_ = <<>>
    /\ last.similar # <<>>

\* C4: two classifications of the same text over the same corpus give the same
\* quadrant and the same confidence.
C4_RepeatedClassifyAgrees ==
    (Classified /\ prev.set /\ prev.task = last.body.task) =>
        /\ last.quadrant = prev.quadrant
        /\ last.best_score * prev.total_weight = prev.best_score * last.total_weight

\* C5: every label of the loaded corpus and every quadrant classify returns is
\* one of 0..3; a malformed training entry never becomes a label.
C5_QuadrantInRange ==
    /\ \A i \in 1..Len(training_labels_) : training_labels_[i] \in 0..3
    /\ Classified => last.quadrant \in 0..3

\* the similarities the scan computes for the cached embeddings
ScanSims == [i \in 1..Len(pure_in.embeddings) |->
                cosine_similarity(pure_in.query_embedding, pure_in.embeddings[i])]
QualifyingIn(sims) == {i \in DOMAIN sims : FloatGT(sims[i], Float(Threshold))}

\* C6: findSimilar returns at most k = 5 entries, sorted by non-increasing
\* similarity, all strictly above 0.3, and they are the k best qualifying examples.
C6_TopKSortedAboveThreshold ==
    (pure_in.fn = "scan" /\ pure_out.done) =>
        LET r == pure_out.similar
            sims == ScanSims
            qualifying == QualifyingIn(sims)
        IN  /\ Len(r) <= max_similar
            /\ Len(r) = Min(max_similar, Cardinality(qualifying))
            /\ \A j \in 1..Len(r) : r[j].similarity > Threshold
            /\ \A j \in 1..(Len(r) - 1) : r[j].similarity >= r[j + 1].similarity
            /\ \A j \in 1..Len(r) :
                   /\ \E i \in qualifying :
                          pure_in.texts[i] = r[j].text /\ sims[i].v = r[j].similarity
                   /\ Cardinality({i \in qualifying : sims[i].v > r[j].similarity}) < j
                   /\ j <= Cardinality({i \in qualifying : sims[i].v >= r[j].similarity})

\* more than k qualifying examples, and one at exactly 0.3 that is left out
C6_Witness ==
    /\ pure_in.fn = "scan"
    /\ pure_out.done
    /\ LET sims == ScanSims
       IN  /\ Cardinality(QualifyingIn(sims)) > max_similar
           /\ \E i \in DOMAIN sims : sims[i] = Float(Threshold)
    /\ Len(pure_out.similar) = max_similar

\* C7: a failed query embedding is reported as an error by the retrieval, and
\* an empty corpus with a working embedder gives an empty list and no error.
C7_EmbeddingFailureReported ==
    /\ (last.handled /\ last.path = "local" /\ last.query_failed) => last.error
    /\ (last.handled /\ last.path = "local" /\ ~last.query_failed /\ training_texts_ = <<>>)
           => (last.similar = <<>> /\ ~last.error)

ChromaFailed(response) == response.status_code # 200 \/ ~response.body_ok

\* C8: when ChromaDB answers with a non-200 status, a network error or an
\* unparsable body, the request is served by the local search over the
\* in-process corpus and still gets its 200 answer.
C8_ChromaFailureFallsBack ==
    (last.handled /\ last.body.json /\ last.body.has_task /\ last.body.task # T0
         /\ ChromaFailed(last.response)) =>
        /\ last.status = 200
        /\ last.path = "local"
        /\ ~last.error
        /\ last.quadrant_name = get_quadrant_name(last.quadrant)
        /\ last.similar =
               IF last.query_failed THEN <<>>
               ELSE scan_sort_truncate(generate_embedding(session_, last.body.task, TRUE),
                                       training_embeddings_, training_texts_)

\* an unparsable body, and the local search found neighbours
C8_Witness ==
    /\ last.handled
    /\ last.response = BadBody
    /\ last.path = "local"
    /\ last.similar # <<>>

\* C9: a request with a non-empty task never gets an HTTP error, and when every
\* path has failed the answer is DoNow with confidence 0.
C9_DefaultWhenExhausted ==
    (last.handled /\ last.body.json /\ last.body.has_task /\ last.body.task # T0) =>
        /\ last.status = 200
        /\ (ChromaFailed(last.response) /\ last.query_failed) =>
               (last.quadrant = 0 /\ last.best_score = 0)

\* C10: a request without body, without task or with an empty task is answered
\* with 400, without creating or invoking the classifier and without touching
\* its state.
C10_InvalidRequestRejected ==
    [][(/\ request.pending
        /\ ~request'.pending
        /\ (~request.body.json \/ ~request.body.has_task \/ request.body.task = T0))
          => (/\ last'.handled
              /\ last'.status = 400
              /\ last'.path = "none"
              /\ UNCHANGED classifierVars)]_vars

\* an empty task was refused and there is still no classifier
C10_Witness ==
    /\ last.handled
    /\ last.body = TaskBody(T0)
    /\ last.status = 400
    /\ ~global_classifier

LongOrMultiline(text) == text.len > LengthThreshold \/ text.newline

Routed(r) == route[r].state \in {"RouteDecision", "Classifying", "Degraded", "Completed", "Failed"}

\* C11: a request whose text is longer than the length threshold, or contains
\* a newline, is routed to the fallback path and the fast engine is never
\* called for it, whatever the health flag says.
C11_LongTextUsesFallback ==
    \A r \in RouteIds :
        (route[r].state # "Idle" /\ LongOrMultiline(route[r].text)) =>
            /\ route[r].fast_calls = 0
            /\ route[r].degraded = 0
            /\ route[r].engine # "fast"
            /\ Routed(r) => route[r].engine = "fallback"

\* a long text was answered by the fallback although the fast engine was healthy
C11_Witness ==
    \E r \in RouteIds :
        /\ route[r].state = "Completed"
        /\ route[r].text.len > LengthThreshold
        /\ route[r].flag_seen
        /\ route[r].engine = "fallback"

\* C12: when a request whose fast-engine call failed finishes, the health flag
\* is unhealthy, and a request routed after that goes directly to the fallback
\* path without any attempt on the fast engine.
C12_UnhealthyAfterFailure ==
    /\ \A r \in RouteIds :
           (route[r].state \in {"Completed", "Failed"} /\ route[r].degraded > 0)
               => ~fast_healthy
    /\ \A r \in RouteIds :
           (Routed(r) /\ ~route[r].flag_seen)
               => (route[r].fast_calls = 0 /\ route[r].engine = "fallback")

\* C12 as amended: a failed fast-engine call leaves the flag unhealthy, the
\* flag stays unhealthy until a fast-engine call of some request succeeds, and
\* every request routed while it is unhealthy goes directly to the fallback
\* path without any attempt on the fast engine.
C12_UnhealthyUntilSuccess ==
    [][/\ \A r \in RouteIds :
              (route[r].state = "Classifying" /\ route'[r].state = "Degraded")
                  => ~fast_healthy'
       /\ (~fast_healthy /\ fast_healthy')
              => \E r \in RouteIds :
                     /\ route[r].state = "Classifying"
                     /\ route[r].engine = "fast"
                     /\ route'[r].state = "Completed"
       /\ \A r \in RouteIds :
              (route[r].state = "Received" /\ route'[r].state # "Received" /\ ~fast_healthy)
                  => route'[r].engine = "fallback"
       /\ \A r \in RouteIds :
              (route'[r].state # "Idle" /\ route'[r].engine = "fallback"
                   /\ route'[r].degraded = 0)
                  => route'[r].fast_calls = 0]_vars

\* a short single-line text was answered by the fallback, with no call of the
\* fast engine, because the flag was unhealthy when it was routed
C12_Witness ==
    \E r \in RouteIds :
        /\ route[r].state = "Completed"
        /\ FastEligible(route[r].text)
        /\ ~route[r].flag_seen
        /\ route[r].engine = "fallback"
        /\ route[r].fast_calls = 0

\* C17: every received request eventually reaches Completed or Failed, passing
\* through Degraded at most once, given that each engine call returns or times
\* out.
C17_EventuallyTerminal ==
    /\ [](\A r \in RouteIds : route[r].degraded <= 1)
    /\ \A r \in RouteIds :
           (route[r].state \in {"Received", "RouteDecision", "Classifying", "Degraded"})
               ~> (route[r].state \in {"Completed", "Failed"})

\* a request whose fast call failed was completed by the fallback
C17_Witness ==
    \E r \in RouteIds :
        /\ route[r].state = "Completed"
        /\ route[r].degraded = 1
        /\ route[r].engine = "fallback"

\* how many times example e occurs in the sequence s
Occurrences(s, e) == Cardinality({i \in 1..Len(s) : s[i] = e})

ExampleOf(w) == TrainingExample(writer[w].text, writer[w].quadrant)

Returned(w) == writer[w].pc = "returned"

\* C13: two addExample calls that run concurrently both succeed, and once both
\* have returned allExamples() holds both new examples; when every caller has
\* returned the corpus has grown by exactly one example per call.
C13_ConcurrentAddsBothKept ==
    /\ \A w1, w2 \in WriterIds :
           (w1 # w2 /\ Returned(w1) /\ Returned(w2)) =>
               /\ writer[w1].result = "ok"
               /\ writer[w2].result = "ok"
               /\ Occurrences(allExamples, ExampleOf(w1)) >= 1
               /\ Occurrences(allExamples, ExampleOf(w2)) >= 1
               /\ ExampleOf(w1) = ExampleOf(w2)
                      => Occurrences(allExamples, ExampleOf(w1)) >= 2
               /\ Len(allExamples) >= Min(writer[w1].len_at_call, writer[w2].len_at_call) + 2
    /\ (\A w \in WriterIds : Returned(w)) =>
           \E w0 \in WriterIds :
               /\ \A w \in WriterIds : writer[w0].len_at_call <= writer[w].len_at_call
               /\ Len(allExamples) = writer[w0].len_at_call + Cardinality(WriterIds)

\* two calls that started on the same corpus have both returned
C13_Witness ==
    \E w1, w2 \in WriterIds :
        /\ w1 # w2
        /\ Returned(w1)
        /\ Returned(w2)
        /\ writer[w1].len_at_call = writer[w2].len_at_call
        /\ ExampleOf(w1) = ExampleOf(w2)

\* C14: addExample(T, Q) makes examplesByQuadrant(Q) contain T exactly once
\* more than before, also when (T, Q) was already there, and leaves
\* examplesByQuadrant(Q') as it was for every other quadrant Q'.
C14_AddExampleRoundTrip ==
    [][\A w \in WriterIds :
           (writer[w].pc = "write" /\ writer'[w].pc # "write") =>
               LET e == ExampleOf(w)
               IN  /\ Occurrences(examplesByQuadrant(e.quadrant)', e)
                          = Occurrences(examplesByQuadrant(e.quadrant), e) + 1
                   /\ Len(examplesByQuadrant(e.quadrant)')
                          = Len(examplesByQuadrant(e.quadrant)) + 1
                   /\ \A q \in 0..3 :
                          q # e.quadrant => examplesByQuadrant(q)' = examplesByQuadrant(q)]_vars

\* an example was added a second time while another quadrant has examples too
C14_Witness ==
    \E w \in WriterIds :
        /\ Returned(w)
        /\ Occurrences(examplesByQuadrant(writer[w].quadrant), ExampleOf(w)) >= 2
        /\ \E q \in 0..3 : q # writer[w].quadrant /\ examplesByQuadrant(q) # <<>>

\* C15: for a fixed query, corpus and k, a higher minSimilarity never gives
\* more neighbours; at 0.3 the retrieval is the one of find_similar_examples_local.
C15_HigherThresholdFewerNeighbours ==
    (pure_in.fn = "threshold" /\ pure_out.done) =>
        /\ Len(pure_out.at_m2) <= Len(pure_out.at_m1)
        /\ pure_in.m1 = Threshold =>
               pure_out.at_m1 = scan_sort_truncate(pure_in.query_embedding,
                                                   pure_in.embeddings, pure_in.texts)

\* the lower threshold fills all k places, the higher one leaves some but not all
C15_Witness ==
    /\ pure_in.fn = "threshold"
    /\ pure_out.done
    /\ pure_in.m1 < pure_in.m2
    /\ Len(pure_in.texts) > max_similar
    /\ Len(pure_out.at_m1) = max_similar
    /\ Len(pure_out.at_m2) > 0
    /\ Len(pure_out.at_m2) < max_similar

\* the flags the spec derives from a quadrant id
UrgentQuadrant(q) == q = 0 \/ q = 1
ImportantQuadrant(q) == q = 0 \/ q = 2

KeyWithLabel(label) == CHOOSE key \in KeySet : QuadrantLabel(key) = label
QuadrantLabels == <<"Do Now", "Schedule", "Delegate", "Delete">>

\* C16: a classification response, handleAnalysisComplete and onDragEnd all
\* give urgent exactly for DoNow (0) and Schedule (1) and important exactly for
\* DoNow (0) and Delegate (2); the four quadrants map to four different pairs
\* of flags, each accepted by the filter of its own quadrant and by no other.
C16_QuadrantFlagsAgree ==
    /\ ui_event.handler \in {"predictQuadrant", "handleAnalysisComplete"}
           /\ ui_event.quadrant >= 0
           => /\ newTask.urgent = UrgentQuadrant(ui_event.quadrant)
              /\ newTask.important = ImportantQuadrant(ui_event.quadrant)
    /\ (ui_event.handler = "onDragEnd" /\ ui_event.quadrant >= 0)
           => \E n \in 1..Len(tasks) :
                  /\ tasks[n]._id = ui_event.id
                  /\ tasks[n].urgent = UrgentQuadrant(ui_event.quadrant)
                  /\ tasks[n].important = ImportantQuadrant(ui_event.quadrant)
                  /\ \E j \in 1..Len(shown[KeyWithLabel(QuadrantLabels[ui_event.quadrant + 1])]) :
                         shown[KeyWithLabel(QuadrantLabels[ui_event.quadrant + 1])][j]._id
                             = ui_event.id
    /\ \A q \in 0..3 :
           LET flags == quadrantToBool(q)
               key == KeyWithLabel(QuadrantLabels[q + 1])
           IN  /\ flags.urgent = UrgentQuadrant(q)
               /\ flags.important = ImportantQuadrant(q)
               /\ ClassificationResult(q).urgent = flags.urgent
               /\ ClassificationResult(q).important = flags.important
               /\ quadrantToState(key).defined
               /\ quadrantToState(key).urgent = flags.urgent
               /\ quadrantToState(key).important = flags.important
               /\ \A other \in KeySet : QuadrantFilter(other, flags) <=> other = key
               /\ \A q2 \in 0..3 : quadrantToBool(q2) = flags => q2 = q

\* the analysis suggested Delegate and the form got important without urgent
C16_Witness ==
    /\ ui_event.handler = "handleAnalysisComplete"
    /\ ui_event.quadrant = 2
    /\ ~newTask.urgent
    /\ newTask.important

\* the tasks the render put under a key, as the sequence of their ids
ShownIds(key) == [j \in 1..Len(shown[key]) |-> shown[key][j]._id]

\* C18: the Matrix shows every task in exactly one quadrant, the one its two
\* flags select: no task is shown twice and none is left out.
C18_EachTaskInOneQuadrant ==
    /\ \A n \in 1..Len(tasks) :
           LET t == tasks[n]
               holds(key) == \E j \in 1..Len(shown[key]) : shown[key][j] = t
           IN  /\ holds(KeyWithLabel("Do Now")) <=> (t.urgent /\ t.important)
               /\ holds(KeyWithLabel("Schedule")) <=> (t.urgent /\ ~t.important)
               /\ holds(KeyWithLabel("Delegate")) <=> (~t.urgent /\ t.important)
               /\ holds(KeyWithLabel("Delete")) <=> (~t.urgent /\ ~t.important)
               /\ Cardinality({key \in KeySet : holds(key)}) = 1
    /\ \A key \in KeySet :
           /\ \A j \in 1..Len(shown[key]) : \E n \in 1..Len(tasks) : tasks[n] = shown[key][j]
           /\ \A j1, j2 \in 1..Len(shown[key]) :
                  ShownIds(key)[j1] = ShownIds(key)[j2] => j1 = j2
    /\ SumSeq([i \in 1..4 |-> Len(shown[QuadrantKeys[i]])]) = Len(tasks)

\* two tasks on the board, one under Do Now and one under Delete
C18_Witness ==
    /\ Len(tasks) >= 2
    /\ shown["do"] # <<>>
    /\ shown["delete"] # <<>>

\* the score the claimed vote gives quadrant q when neighbour j is the training
\* example own[j]
ClaimedScore(q, similar, own, labels) ==
    (IF q = 0 THEN BaseWeight ELSE 0)
        + SumSeq([j \in 1..Len(similar) |->
                     IF labels[own[j]] = q THEN similar[j].similarity * WeightNum ELSE 0])

\* C19: classify is a weighted vote: DoNow starts with 1.0 and totalWeight with
\* 1.0, every retrieved neighbour adds similarity * 0.6 to the score of its own
\* quadrant (the label of the training example it is) and to totalWeight, and
\* the returned quadrant has the maximal score among the quadrants that got one.
C19_WeightedVote ==
    Classified =>
        \E own \in [1..Len(last.similar) -> 1..Len(training_labels_)] :
            /\ \A j \in 1..Len(last.similar) :
                   training_texts_[own[j]] = last.similar[j].text
            /\ last.path = "local" =>
                   \A j1, j2 \in 1..Len(last.similar) : own[j1] = own[j2] => j1 = j2
            /\ last.total_weight
                   = BaseWeight + SumSeq([j \in 1..Len(last.similar) |->
                                             last.similar[j].similarity * WeightNum])
            /\ last.best_score
                   = ClaimedScore(last.quadrant, last.similar, own, training_labels_)
            /\ \A j \in 1..Len(last.similar) :
                   ClaimedScore(training_labels_[own[j]], last.similar, own, training_labels_)
                       <= last.best_score
            /\ ClaimedScore(0, last.similar, own, training_labels_) <= last.best_score

\* the entries of the score table of the last classification, in the order
\* the loop over the map visits them
VisitedScores ==
    IterationOrder(weighted_vote(last.similar, training_texts_, training_labels_, 0,
                                 map_order).scores, map_order)

\* C20: when quadrants tie for the maximal score, classify returns the one the
\* iteration over the scores meets first, and the same text over the same
\* corpus always resolves its tie to the same quadrant.
C20_TieBreakDeterministic ==
    /\ Classified =>
           \E i \in 1..Len(VisitedScores) :
               /\ VisitedScores[i].quadrant = last.quadrant
               /\ \A k \in 1..Len(VisitedScores) :
                      VisitedScores[k].score <= VisitedScores[i].score
               /\ \A k \in 1..(i - 1) : VisitedScores[k].score < VisitedScores[i].score
    /\ (Classified /\ Tied(VisitedScores)
            /\ prev.set /\ prev.tied /\ prev.task = last.body.task)
           => last.quadrant = prev.quadrant

\* C21: the vote of a classification uses at most max_similar neighbours,
\* whether ChromaDB or the local search supplied them.
C21_AtMostMaxSimilarNeighbours ==
    Classified => Len(last.similar) <= max_similar

\* the score the table of the last classification holds for quadrant q
ScoreOf(q) ==
    LET hits == SelectSeq(VisitedScores, LAMBDA e : e.quadrant = q)
    IN  IF hits = <<>> THEN 0 ELSE hits[1].score

\* the ways to name, for each neighbour of the last local retrieval, the
\* training example it is: an example of that text, no example named twice
OwnExamples ==
    {own \in [1..Len(last.similar) -> 1..Len(training_texts_)] :
        /\ \A j \in 1..Len(last.similar) : training_texts_[own[j]] = last.similar[j].text
        /\ \A j1, j2 \in 1..Len(last.similar) : own[j1] = own[j2] => j1 = j2}

\* C26: each neighbour retrieved from the corpus votes for the label of the
\* training example that it is, also when the corpus holds its text twice with
\* different quadrants: the later example adds to the later example's quadrant.
C26_NeighbourVotesOwnLabel ==
    (Classified /\ last.path = "local") =>
        \E own \in OwnExamples :
            \A q \in 0..3 :
                ScoreOf(q) = ClaimedScore(q, last.similar, own, training_labels_)

\* C27: training_texts_ and training_labels_ have the same length in every
\* state of the classifier, also after load_training_data has stopped at a
\* malformed entry, so an index found in the texts is an index of the labels.
C27_TextsAndLabelsSameLength ==
    Len(training_texts_) = Len(training_labels_)

\* a call of the fast engine is outstanding for request r
FastCallOutstanding(r) ==
    route[r].engine = "fast" /\ route[r].state \in {"RouteDecision", "Classifying"}

\* a step in which the fast-engine call of request r ends
FastCallEnds(r) ==
    /\ route[r].state = "Classifying"
    /\ route[r].engine = "fast"
    /\ route'[r].state # "Classifying"

\* the flag follows every call, and a request routed while it is false skips
\* the fast engine
FlagFollowsCalls ==
    /\ \A r \in RouteIds :
           FastCallEnds(r) => (fast_healthy' <=> route'[r].state = "Completed")
    /\ \A r \in RouteIds :
           (route[r].state = "Received" /\ route'[r].state # "Received" /\ ~fast_healthy)
               => (route'[r].engine = "fallback" /\ route'[r].fast_calls = 0)

ReadsCache(t) == thread[t].pc \in {"check_empty", "scan"}

\* C23: a classify call leaves the training texts and their labels as they
\* were, on both retrieval paths, and writes no state of the classifier that
\* another classify call running at the same time reads.
C23_ClassifyWritesNothingShared ==
    [][/\ training_texts_' = training_texts_
       /\ training_labels_' = training_labels_
       /\ \A t \in ThreadIds :
              (thread'[t] # thread[t] /\ training_embeddings_' # training_embeddings_)
                  => \A u \in ThreadIds : u # t => ~ReadsCache(u)]_vars

\* C24: the embedding of each training example is computed at most once,
\* also when several requests arrive before the cache is filled: the cache
\* never holds more than one embedding per example, and exactly one per
\* example once no thread is filling it.
C24_EmbeddingsComputedOnce ==
    /\ Len(training_embeddings_) <= Len(training_texts_)
    /\ (training_embeddings_ # <<>> /\ \A t \in ThreadIds : thread[t].pc \notin {"lock", "fill"})
           => Len(training_embeddings_) = Len(training_texts_)

\* C28: whenever a thread scans training_embeddings_ the cache holds the
\* embedding of every training example, entry i being that of
\* training_texts_[i], also while another thread fills the cache.
C28_ScanSeesFullCache ==
    \A t \in ThreadIds :
        thread[t].pc = "scan" =>
            /\ Len(training_embeddings_) = Len(training_texts_)
            /\ \A i \in 1..Len(training_texts_) :
                   training_embeddings_[i] = generate_embedding(session_, training_texts_[i], TRUE)

\* C25: when the request of predictQuadrant fails the form gets the flags of
\* the keyword heuristic (urgent iff the lower-cased title contains an urgency
\* keyword, important iff it contains an importance keyword); aiLoading is
\* false again once the call has finished, whatever its outcome; for an empty
\* or whitespace-only title no request is made and no state changes.
C25_HeuristicOnFailure ==
    [][/\ (ai_call.pending /\ ui_event'.handler = "predictQuadrant_catch")
              => /\ newTask'.urgent = SomeIncluded(urgentWords, ai_call.title)
                 /\ newTask'.important = SomeIncluded(importantWords, ai_call.title)
       /\ (ai_call.pending /\ ~ai_call'.pending) => ~aiLoading'
       /\ aiLoading' => ai_call'.pending
       /\ (~ai_call.pending /\ ai_call'.pending) => ~IsBlank(ai_call'.title)
       /\ ui_event'.handler = "predictQuadrant_return"
              => (IsBlank(newTask.title) /\ UNCHANGED <<tasks, newTask, shown, aiLoading, ai_call>>)]_vars

\* the request for the title 'Pilne kup' failed: the form is urgent and not
\* important, and the loading flag is down
C25_Witness ==
    /\ ui_event.handler = "predictQuadrant_catch"
    /\ newTask.title = <<"Pilne", "kup">>
    /\ newTask.urgent
    /\ ~newTask.important
    /\ ~aiLoading

\* C30: handleAnalysisComplete fills the form with the flags of the quadrant
\* the LangChain analysis suggests, for every quadrant 0..3, DoNow (0)
\* included; the quadrant of the RAG classification is used only when the
\* LangChain analysis supplies none.
C30_LangChainQuadrantFirst ==
    (ui_event.handler = "handleAnalysisComplete" /\ ui_event.langchain.defined
         /\ ui_event.langchain.v \in 0..3)
        => /\ newTask.urgent = UrgentQuadrant(ui_event.langchain.v)
           /\ newTask.important = ImportantQuadrant(ui_event.langchain.v)

\* the ids of the tasks in the list of the App
TaskIds == {tasks[n]._id : n \in 1..Len(tasks)}

\* C29: no completed add is lost through the interleaving of the asynchronous
\* handlers of the App: every task that was created, by addTask calls that
\* overlapped or while a deleteTask was awaiting its answer, is in the task
\* list unless deleteTask was called for it.
C29_NoCompletedAddLost ==
    \A id \in (Len(InitialTasks) + 1)..(next_id - 1) :
        id \notin delete_requested => id \in TaskIds

====
